---- MODULE Spec2Model ----
(***************************************************************************)
(* Model of the Independent Reserve market-data connector:                 *)
(*   - the class-level trading-pair <-> exchange-symbol map and its lazy,  *)
(*     lock-guarded initialization (IndependentreserveAPIOrderBookData-    *)
(*     Source.trading_pair_symbol_map and friends);                        *)
(*   - the public websocket loop listen_for_subscriptions.                 *)
(* Strings whose content the code inspects (trading pairs, currency codes, *)
(* channel names) are sequences of one-character strings, so that          *)
(* formatting and splitting are computed and not assumed.                  *)
(***************************************************************************)
EXTENDS Integers, Sequences, FiniteSets, TLC

VARIABLES
    \* ---- symbol map (class-level state, shared by every caller) ----
    symbolMap,      \* cls._trading_pair_symbol_map: domain -> bidict
    lockHolder,     \* cls._mapping_initialization_lock: the holding task or None
    pc,             \* per task: where the task is suspended
    call,           \* per task: the operation it is in (or was last in) and its arguments
    result,         \* per task: what its last operation returned or raised
    primary_data,   \* per task: local of a running _init_trading_pair_symbols (Unbound
                    \* until assigned; secondary_data lives within one step, see Combine)
    waited,         \* per task: its current (or last) operation waited for the lock
    calls,          \* number of operations started so far
    initStarts,     \* per domain: executions of _init_trading_pair_symbols started
    initFailed,     \* per domain: executions that ended without populating the map
    restCalls,      \* per domain: currency-code REST calls completed
    fetched,        \* per domain: the two code lists of the execution that stored the map
    \* ---- listen_for_subscriptions (one data-source instance) ----
    trading_pairs,  \* self._trading_pairs
    ws_assistant,   \* self._ws_assistant: None or the assistant the factory gave
    ws,             \* the local ws of listen_for_subscriptions
    wsPc,           \* where listen_for_subscriptions is suspended
    raising,        \* the exception in flight while the finally block runs
    wsEnded,        \* "running", or the exception the task ended with
    cancelled,      \* cancel() has been called on the task
    connected,      \* the assistant holds an open connection
    primary_symbol, \* the local primary_symbol of _subscribe_channels
    sent,           \* payloads sent on the current session: the subscribed channel names
    received,       \* every message iter_messages has yielded, in order
    diffQueue,      \* self._message_queue[CONSTANTS.DIFF_EVENT_TYPE]
    tradeQueue,     \* self._message_queue[CONSTANTS.TRADE_EVENT_TYPE]
    sessions,       \* iterations of the while loop started
    wsLog,          \* what the loop did, in order: "connect", "error", "eos", "cancel", "sleep", "disconnect"
    \* IndependentreserveAPIUserStreamDataSource and its listen_for_user_stream task
    user_ws_assistant,  \* self._ws_assistant of the user stream data source
    usWs,           \* the local ws of listen_for_user_stream
    usPc,           \* where listen_for_user_stream is
    usRaising,      \* the exception in flight while its finally block runs, or None
    usEnded,        \* "running", or the exception that ended the task
    usCancelled,    \* the task has been cancelled
    usReceived,     \* every message iter_messages has yielded to it
    output,         \* every message put on the output queue
    usSessions,     \* iterations of its while loop started
    usLog,          \* what the loop did, in order, with the events of wsLog
    usLastRecv,     \* last_recv_time of the user stream's websocket assistant
    \* one task running listen_for_order_book_diffs or listen_for_trades
    loopKind,       \* "diff" or "trade": which of the two loops the task runs
    message_queue,  \* the messages waiting on the queue the loop reads
    taken,          \* every message the loop has taken from it
    published,      \* every message put on the output queue
    loopErrors,     \* every error the loop has logged, with the message it was processing
    loopPc,         \* "get" while the loop runs, "done" when the task is over
    loopCancelled,  \* the task has been cancelled
    \* one task running listen_for_order_book_snapshots
    snapPc,         \* where the task is: in get_snapshot ("call", "json"), asleep, or "done"
    snapIndex,      \* the position in self._trading_pairs of the pair the for loop is at
    snapCycle,      \* the number of the cycle of the while loop
    invocations,    \* get_snapshot invocations started
    gets,           \* REST GET requests issued
    snapPublished,  \* every message put on the output queue
    snapLog,        \* what the task did, in order
    snapCancelled,  \* the task has been cancelled
    \* calls of the authenticator, the url builders and the normalizers
    auth,           \* the authenticator, once constructed, with its credentials
    clock,          \* the reading of the time provider, in microseconds
    called,         \* the last call: the function and its arguments
    returned,       \* what the last call gave back
    \* concurrent callers of _get_rest_assistant or _get_ws_assistant of one data source
    assistantKind,  \* "rest" or "ws": the getter the callers are in
    cachedAssistant,\* self._rest_assistant or self._ws_assistant
    factoryAsked,   \* calls of the factory's get_rest_assistant or get_ws_assistant
    factoryBuilt,   \* assistants the factory has built
    getPc,          \* per caller: "idle" or "asking" (suspended in the factory's await)
    getGot,         \* per caller: what its last call returned
    getsBegun,      \* calls of the getter begun
    \* one task in a function that makes REST calls under the throttler
    restOp,         \* the function
    restBlock,      \* which of its throttler contexts it is at
    restPc,         \* "acquire" (waiting in __aenter__), "call", "json" or "done"
    restHeld,       \* the limit ids of the permits the task holds
    restLog,        \* what the task did, in order
    restCancelled,  \* the task has been cancelled
    restRuns        \* calls of such functions so far

mapVars == <<symbolMap, lockHolder, pc, call, result, primary_data, waited, calls, initStarts, initFailed, restCalls, fetched>>

wsVars == <<trading_pairs, ws_assistant, ws, wsPc, raising, wsEnded, cancelled, connected,
            primary_symbol, sent, received, diffQueue, tradeQueue, sessions, wsLog>>

usVars == <<user_ws_assistant, usWs, usPc, usRaising, usEnded, usCancelled, usReceived, output,
            usSessions, usLog, usLastRecv>>

loopVars == <<loopKind, message_queue, taken, published, loopErrors, loopPc, loopCancelled>>

callVars == <<auth, clock, called, returned>>
restVars == <<restOp, restBlock, restPc, restHeld, restLog, restCancelled, restRuns>>
getVars == <<assistantKind, cachedAssistant, factoryAsked, factoryBuilt, getPc, getGot, getsBegun>>
snapVars == <<snapPc, snapIndex, snapCycle, invocations, gets, snapPublished, snapLog, snapCancelled>>

\* what the actions of one component leave alone
exceptMap == <<wsVars, usVars, loopVars, snapVars, callVars, getVars, restVars>>
exceptWs == <<mapVars, usVars, loopVars, snapVars, callVars, getVars, restVars>>
exceptUs == <<mapVars, wsVars, loopVars, snapVars, callVars, getVars, restVars>>
exceptLoop == <<mapVars, wsVars, usVars, snapVars, callVars, getVars, restVars>>
exceptSnap == <<mapVars, wsVars, usVars, loopVars, callVars, getVars, restVars>>
exceptCalls == <<mapVars, wsVars, usVars, loopVars, snapVars, getVars, restVars>>
exceptGet == <<mapVars, wsVars, usVars, loopVars, snapVars, callVars, restVars>>
exceptRest == <<mapVars, wsVars, usVars, loopVars, snapVars, callVars, getVars>>

vars == <<mapVars, wsVars, usVars, loopVars, snapVars, callVars, getVars, restVars>>

\* ------------------------------------------------------------------ bounds
MaxCalls == 2
MaxMsgs == 2
MaxSessions == 2
\* messages one listen_for_user_stream task receives
MaxUserMsgs == 3
\* messages fed to one diff or trade loop
MaxLoopMsgs == 3
\* cycles of one snapshot loop
MaxCycles == 2
\* calls of one assistant getter
MaxGets == 4
\* calls of functions that make REST calls
MaxRestRuns == 2

\* ------------------------------------------------------------------ strings
XBT == <<"X", "b", "t">>
ETH == <<"E", "t", "h">>
USD == <<"U", "s", "d">>
AUD == <<"A", "u", "d">>

None == "None"
\* a local variable that was never assigned (reading it raises UnboundLocalError)
Unbound == [bound |-> FALSE, val |-> << >>]
Bound(v) == [bound |-> TRUE, val |-> v]

Tasks == {"t1", "t2"}
Domains == {"com", "us"}

\* Responses of GetValidPrimaryCurrencyCodes / GetValidSecondaryCurrencyCodes (status 200)
PrimaryLists == {<< >>, <<XBT, ETH>>}
SecondaryLists == {<<USD>>, <<USD, AUD>>}

\* ------------------------------------------------------------------ bidict
\* f"{pair[0]}-{pair[1]}"
PairName(pair) == pair[1] \o <<"-">> \o pair[2]

EmptyBidict == [k \in {} |-> << >>]

\* bidict.__setitem__: an existing key is overwritten, a value already held by
\* another key raises ValueDuplicationError
BidictPut(m, k, v) ==
    IF m.kind # "ok" THEN m
    ELSE IF \E k2 \in DOMAIN m.map : k2 # k /\ m.map[k2] = v
         THEN [kind |-> "ValueDuplicationError", map |-> EmptyBidict]
         ELSE [kind |-> "ok",
               map |-> [x \in (DOMAIN m.map) \cup {k} |-> IF x = k THEN v ELSE m.map[x]]]

AllCurrencyCodes_Zip(primary, secondary) ==
    [i \in 1..(IF Len(primary) < Len(secondary) THEN Len(primary) ELSE Len(secondary))
        |-> <<primary[i], secondary[i]>>]

\* list(itertools.product(primary_data, secondary_data))
AllCurrencyCodes(primary, secondary) ==
    [i \in 1..(Len(primary) * Len(secondary)) |->
        <<primary[((i - 1) \div Len(secondary)) + 1],
          secondary[((i - 1) % Len(secondary)) + 1]>>]

RECURSIVE BuildMapping(_, _, _)
\* for pair in all_currency_codes: mapping[pair] = f"{pair[0]}-{pair[1]}"
BuildMapping(codes, i, m) ==
    IF i > Len(codes) THEN m
    ELSE BuildMapping(codes, i + 1, BidictPut(m, codes[i], PairName(codes[i])))

\* ------------------------------------------------------------------ lookups
trading_pair_symbol_map_ready(maps, domain) ==
    domain \in DOMAIN maps /\ Cardinality(DOMAIN maps[domain]) > 0

NoPair == << >>
NoSymbol == << << >>, << >> >>
NoResult == [kind |-> "none", pair |-> NoPair, symbol |-> NoSymbol,
             pairs |-> {}, map |-> EmptyBidict, ready |-> FALSE]

Raised(e) == [NoResult EXCEPT !.kind = e]

trading_pair_associated_to_exchange_symbol_Get(m, symbol) ==
    IF symbol \in DOMAIN m
    THEN [NoResult EXCEPT !.kind = "ok", !.pair = m[symbol], !.map = m]
    ELSE [NoResult EXCEPT !.kind = "ok", !.map = m]

\* symbol_map[symbol]
trading_pair_associated_to_exchange_symbol(m, symbol) ==
    IF symbol \in DOMAIN m
    THEN [NoResult EXCEPT !.kind = "ok", !.pair = m[symbol], !.map = m]
    ELSE [NoResult EXCEPT !.kind = "KeyError", !.map = m]

exchange_symbol_associated_to_pair_Forward(m, trading_pair) ==
    [NoResult EXCEPT !.kind = "KeyError", !.map = m]

\* symbol_map.inverse[trading_pair]
exchange_symbol_associated_to_pair(m, trading_pair) ==
    IF \E k \in DOMAIN m : m[k] = trading_pair
    THEN [NoResult EXCEPT !.kind = "ok",
                          !.symbol = CHOOSE k \in DOMAIN m : m[k] = trading_pair,
                          !.map = m]
    ELSE [NoResult EXCEPT !.kind = "KeyError", !.map = m]

\* list(mapping.values())
fetch_trading_pairs(m) ==
    [NoResult EXCEPT !.kind = "ok", !.pairs = {m[k] : k \in DOMAIN m}, !.map = m]

\* ------------------------------------------------------------------ operations
MapOps == {"trading_pair_symbol_map", "exchange_symbol_associated_to_pair",
           "trading_pair_associated_to_exchange_symbol", "fetch_trading_pairs"}

\* Arguments the callers try: a trading pair and an exchange symbol that are in the
\* map built from <<USD, AUD>> and in no other
LookupPairs == {PairName(<<ETH, AUD>>)}
LookupSymbols == {<<ETH, AUD>>}

Calls ==
    [op : {"trading_pair_symbol_map", "fetch_trading_pairs"}, domain : Domains,
     pair : {NoPair}, symbol : {NoSymbol}]
    \cup [op : {"exchange_symbol_associated_to_pair"}, domain : Domains,
          pair : LookupPairs, symbol : {NoSymbol}]
    \cup [op : {"trading_pair_associated_to_exchange_symbol"}, domain : Domains,
          pair : {NoPair}, symbol : LookupSymbols]

NoCall == [op |-> "none", domain |-> "com", pair |-> NoPair, symbol |-> NoSymbol]

\* What the operation does with the map trading_pair_symbol_map returned
Finish(cl, m) ==
    CASE cl.op = "trading_pair_symbol_map" ->
            [NoResult EXCEPT !.kind = "ok", !.map = m]
      [] cl.op = "exchange_symbol_associated_to_pair" ->
            exchange_symbol_associated_to_pair(m, cl.pair)
      [] cl.op = "trading_pair_associated_to_exchange_symbol" ->
            trading_pair_associated_to_exchange_symbol(m, cl.symbol)
      [] cl.op = "fetch_trading_pairs" ->
            fetch_trading_pairs(m)

\* cls._trading_pair_symbol_map[domain] = mapping
MapStore(maps, domain, m) ==
    [x \in (DOMAIN maps) \cup {domain} |-> IF x = domain THEN m ELSE maps[x]]

LockAvailable_Always(holder) == TRUE

\* asyncio.Lock: acquire succeeds only while nobody holds the lock
LockAvailable(holder) == holder = None

ReleasedOnError_Kept(holder) == holder

\* async with cls._mapping_initialization_lock: the exit releases the lock, also
\* when the body raised
ReleasedOnError(holder) == None

NeedsInitAfterLock_NoRecheck(maps, domain) == TRUE

\* the second check, made once the lock is held
NeedsInitAfterLock(maps, domain) == ~trading_pair_symbol_map_ready(maps, domain)

Bump(f, d) == [f EXCEPT ![d] = @ + 1]

\* _init_trading_pair_symbols runs up to its first REST call
StartInit(c, d) ==
    /\ lockHolder' = c
    /\ pc' = [pc EXCEPT ![c] = "fetch_primary"]
    /\ primary_data' = [primary_data EXCEPT ![c] = Unbound]
    /\ initStarts' = Bump(initStarts, d)
    /\ UNCHANGED <<symbolMap, result, initFailed, restCalls, fetched>>

\* trading_pair_symbol_map_ready(domain): synchronous, reads only
CallReady(c, d) ==
    /\ UNCHANGED exceptMap
    /\ pc[c] = "idle" /\ calls < MaxCalls
    /\ waited' = [waited EXCEPT ![c] = FALSE]
    /\ calls' = calls + 1
    /\ call' = [call EXCEPT ![c] = [NoCall EXCEPT !.op = "trading_pair_symbol_map_ready",
                                                  !.domain = d]]
    /\ result' = [result EXCEPT ![c] =
                    [NoResult EXCEPT !.kind = "ok",
                                     !.ready = trading_pair_symbol_map_ready(symbolMap, d)]]
    /\ UNCHANGED <<symbolMap, lockHolder, pc, primary_data, initStarts, initFailed, restCalls, fetched>>

\* trading_pair_symbol_map with the map already populated: returns without suspending
CallPopulated(c, cl) ==
    /\ UNCHANGED exceptMap
    /\ pc[c] = "idle" /\ calls < MaxCalls
    /\ waited' = [waited EXCEPT ![c] = FALSE]
    /\ trading_pair_symbol_map_ready(symbolMap, cl.domain)
    /\ calls' = calls + 1
    /\ call' = [call EXCEPT ![c] = cl]
    /\ result' = [result EXCEPT ![c] = Finish(cl, symbolMap[cl.domain])]
    /\ UNCHANGED <<symbolMap, lockHolder, pc, primary_data, initStarts, initFailed, restCalls, fetched>>

\* map not ready, lock free: the lock is taken and initialization starts
CallInit(c, cl) ==
    /\ UNCHANGED exceptMap
    /\ pc[c] = "idle" /\ calls < MaxCalls
    /\ waited' = [waited EXCEPT ![c] = FALSE]
    /\ ~trading_pair_symbol_map_ready(symbolMap, cl.domain)
    /\ LockAvailable(lockHolder)
    /\ calls' = calls + 1
    /\ call' = [call EXCEPT ![c] = cl]
    /\ IF NeedsInitAfterLock(symbolMap, cl.domain)
       THEN /\ StartInit(c, cl.domain)
            /\ result' = [result EXCEPT ![c] = NoResult]
       ELSE /\ result' = [result EXCEPT ![c] = Finish(cl, symbolMap[cl.domain])]
            /\ UNCHANGED <<symbolMap, lockHolder, pc, primary_data, initStarts, initFailed, restCalls, fetched>>

\* map not ready, lock held by another task: the caller waits for the lock
CallWait(c, cl) ==
    /\ UNCHANGED exceptMap
    /\ pc[c] = "idle" /\ calls < MaxCalls
    /\ waited' = [waited EXCEPT ![c] = TRUE]
    /\ ~trading_pair_symbol_map_ready(symbolMap, cl.domain)
    /\ ~LockAvailable(lockHolder)
    /\ calls' = calls + 1
    /\ call' = [call EXCEPT ![c] = cl]
    /\ pc' = [pc EXCEPT ![c] = "wait_lock"]
    /\ result' = [result EXCEPT ![c] = NoResult]
    /\ UNCHANGED <<symbolMap, lockHolder, primary_data, initStarts, initFailed, restCalls, fetched>>

\* the waiter gets the lock and checks the condition again
AcquireAfterWait(c) ==
    /\ UNCHANGED exceptMap
    /\ pc[c] = "wait_lock"
    /\ LockAvailable(lockHolder)
    /\ IF NeedsInitAfterLock(symbolMap, call[c].domain)
       THEN /\ StartInit(c, call[c].domain)
            /\ UNCHANGED <<call, calls, waited>>
       ELSE /\ pc' = [pc EXCEPT ![c] = "idle"]
            /\ result' = [result EXCEPT ![c] = Finish(call[c], symbolMap[call[c].domain])]
            /\ UNCHANGED <<symbolMap, lockHolder, call, calls, waited, primary_data,
                           initStarts, initFailed, restCalls, fetched>>

\* The primary currency-code call returns: status 200 with a list, another status,
\* or an exception (both leave primary_data unassigned)
FetchPrimaryOk(c, codes) ==
    /\ UNCHANGED exceptMap
    /\ pc[c] = "fetch_primary"
    /\ primary_data' = [primary_data EXCEPT ![c] = Bound(codes)]
    /\ pc' = [pc EXCEPT ![c] = "fetch_secondary"]
    /\ restCalls' = Bump(restCalls, call[c].domain)
    /\ UNCHANGED <<symbolMap, lockHolder, call, result, waited, calls,
                   initStarts, initFailed, fetched>>

FetchPrimaryFails(c) ==
    /\ UNCHANGED exceptMap
    /\ pc[c] = "fetch_primary"
    /\ pc' = [pc EXCEPT ![c] = "fetch_secondary"]
    /\ restCalls' = Bump(restCalls, call[c].domain)
    /\ UNCHANGED <<symbolMap, lockHolder, call, result, primary_data, waited, calls,
                   initStarts, initFailed, fetched>>

\* Lines 503-509 and the return of trading_pair_symbol_map, given the two locals
\* primary_data and secondary_data; the locals end with the call
Combine(c, prim, sec) ==
    LET d == call[c].domain
        built == IF prim.bound /\ sec.bound
                 THEN BuildMapping(AllCurrencyCodes(prim.val, sec.val), 1,
                                   [kind |-> "ok", map |-> EmptyBidict])
                 ELSE [kind |-> "UnboundLocalError", map |-> EmptyBidict]
    IN  /\ pc' = [pc EXCEPT ![c] = "idle"]
        /\ primary_data' = [primary_data EXCEPT ![c] = Unbound]
        /\ IF built.kind = "ok"
           THEN /\ symbolMap' = MapStore(symbolMap, d, built.map)
                /\ fetched' = [fetched EXCEPT ![d] = <<prim.val, sec.val>>]
                /\ lockHolder' = None
                /\ result' = [result EXCEPT ![c] = Finish(call[c], built.map)]
                /\ initFailed' = IF Cardinality(DOMAIN built.map) > 0
                                 THEN initFailed ELSE Bump(initFailed, d)
           ELSE /\ lockHolder' = ReleasedOnError(lockHolder)
                /\ result' = [result EXCEPT ![c] = Raised(built.kind)]
                /\ initFailed' = Bump(initFailed, d)
                /\ UNCHANGED <<symbolMap, fetched>>

\* The secondary currency-code call returns; the rest of _init_trading_pair_symbols
\* and of trading_pair_symbol_map follows without suspending
FetchSecondaryOk(c, codes) ==
    /\ UNCHANGED exceptMap
    /\ pc[c] = "fetch_secondary"
    /\ restCalls' = Bump(restCalls, call[c].domain)
    /\ Combine(c, primary_data[c], Bound(codes))
    /\ UNCHANGED <<call, waited, calls, initStarts>>

FetchSecondaryFails(c) ==
    /\ UNCHANGED exceptMap
    /\ pc[c] = "fetch_secondary"
    /\ restCalls' = Bump(restCalls, call[c].domain)
    /\ Combine(c, primary_data[c], Unbound)
    /\ UNCHANGED <<call, waited, calls, initStarts>>

\* The task is cancelled where it is suspended: CancelledError is no Exception, so it
\* leaves _init_trading_pair_symbols and the lock's block
CancelCaller(c) ==
    /\ UNCHANGED exceptMap
    /\ pc[c] \in {"wait_lock", "fetch_primary", "fetch_secondary"}
    /\ pc' = [pc EXCEPT ![c] = "idle"]
    /\ result' = [result EXCEPT ![c] = Raised("CancelledError")]
    /\ lockHolder' = IF lockHolder = c THEN ReleasedOnError(lockHolder) ELSE lockHolder
    /\ initFailed' = IF pc[c] = "wait_lock" THEN initFailed
                     ELSE Bump(initFailed, call[c].domain)
    /\ primary_data' = [primary_data EXCEPT ![c] = Unbound]
    /\ UNCHANGED <<symbolMap, call, waited, calls, initStarts, restCalls, fetched>>

InitSymbolMap ==
    /\ symbolMap = [d \in {} |-> EmptyBidict]
    /\ lockHolder = None
    /\ pc = [c \in Tasks |-> "idle"]
    /\ call = [c \in Tasks |-> NoCall]
    /\ result = [c \in Tasks |-> NoResult]
    /\ primary_data = [c \in Tasks |-> Unbound]
    /\ waited = [c \in Tasks |-> FALSE]
    /\ calls = 0
    /\ initStarts = [d \in Domains |-> 0]
    /\ initFailed = [d \in Domains |-> 0]
    /\ restCalls = [d \in Domains |-> 0]
    /\ fetched = [d \in Domains |-> << << >>, << >> >>]

NextSymbolMap ==
    \/ \E c \in Tasks, d \in Domains : CallReady(c, d)
    \/ \E c \in Tasks, cl \in Calls : CallPopulated(c, cl)
    \/ \E c \in Tasks, cl \in Calls : CallInit(c, cl)
    \/ \E c \in Tasks, cl \in Calls : CallWait(c, cl)
    \/ \E c \in Tasks : AcquireAfterWait(c)
    \/ \E c \in Tasks, codes \in PrimaryLists : FetchPrimaryOk(c, codes)
    \/ \E c \in Tasks : FetchPrimaryFails(c)
    \/ \E c \in Tasks, codes \in SecondaryLists : FetchSecondaryOk(c, codes)
    \/ \E c \in Tasks : FetchSecondaryFails(c)
    \/ \E c \in Tasks : CancelCaller(c)

\* ------------------------------------------------------------------ listen_for_subscriptions
RECURSIVE SplitFrom(_, _, _, _)
\* str.split(sep): the pieces of str between the occurrences of the character sep
SplitFrom(str, sep, i, piece) ==
    IF i > Len(str) THEN <<piece>>
    ELSE IF str[i] = sep THEN <<piece>> \o SplitFrom(str, sep, i + 1, << >>)
    ELSE SplitFrom(str, sep, i + 1, Append(piece, str[i]))

Split(str, sep) == SplitFrom(str, sep, 1, << >>)

\* trading_pair.split('-')[0]
exchange_primary_currency_in_pair(trading_pair) == Split(trading_pair, "-")[1]

Ticker == <<"t", "i", "c", "k", "e", "r", "-">>
Orderbook == <<"o", "r", "d", "e", "r", "b", "o", "o", "k", "-">>

\* the lists of tracked pairs a data source is built with
TrackedLists == {<< >>,
                 <<PairName(<<XBT, USD>>)>>,
                 <<PairName(<<XBT, USD>>), PairName(<<XBT, AUD>>)>>,
                 <<PairName(<<XBT, USD>>), PairName(<<ETH, USD>>)>>}

\* the loop of _subscribe_channels: primary_symbol is assigned once per pair and is
\* read after the loop, so it holds the last pair's primary code (Unbound for no pair)
PrimaryAfterLoop(pairs) ==
    IF Len(pairs) = 0 THEN Unbound
    ELSE Bound(exchange_primary_currency_in_pair(pairs[Len(pairs)]))

\* inbound messages: JSON objects, with or without an Event key
EventTypes == {"Heartbeat", "Subscriptions", "NewOrder", "OrderChanged", "OrderCanceled",
               "Trade", "SomethingNew"}
Messages == {[Event |-> e] : e \in EventTypes} \cup {[Channel |-> "x"]}

DIFF_EVENT_TYPE == "OrderBook"
TRADE_EVENT_TYPE == "Trade"

\* data.get("Event")
GetEvent(data) == IF "Event" \in DOMAIN data THEN data["Event"] ELSE None

\* event_type in ["Heartbeat", "Subscriptions"] in data: a chained comparison,
\* (event_type in [...]) and ([...] in data); its second half looks a list up in a dict
\* and raises TypeError (a list is unhashable), and is evaluated only when the first holds
HeartbeatTest(event_type, data) ==
    IF event_type \in {"Heartbeat", "Subscriptions"} THEN "TypeError" ELSE "False"

\* the body of the async for loop: where a message goes
Route(data) ==
    LET event_type == GetEvent(data)
        hb == HeartbeatTest(event_type, data)
    IN  IF hb = "TypeError" THEN "raise"
        ELSE IF hb = "True" THEN "drop"
        ELSE IF event_type \in {"NewOrder", "OrderChanged", "OrderCanceled"} THEN DIFF_EVENT_TYPE
        ELSE IF event_type \in {TRADE_EVENT_TYPE} THEN TRADE_EVENT_TYPE
        ELSE "drop"

Caught_KeepsStreaming ==
    /\ wsPc' = "recv"
    /\ raising' = None
    /\ wsLog' = wsLog \o <<"error", "sleep">>

\* except Exception: log, then await self._sleep(5.0); the finally block follows
Caught ==
    /\ wsPc' = "sleep"
    /\ raising' = None
    /\ wsLog' = wsLog \o <<"error", "sleep">>

Finally_NoDisconnect(log) == log

\* the finally block is entered: ws and await ws.disconnect() invokes disconnect at once
Finally(log) == IF ws = None THEN log ELSE Append(log, "disconnect")

\* ws = await self._get_ws_assistant(): the cached assistant, or a new one from the factory
WsGetAssistant ==
    /\ wsPc = "get_ws" /\ wsEnded = "running" /\ sessions < MaxSessions
    /\ sessions' = sessions + 1
    /\ ws_assistant' = "assistant"
    /\ ws' = "assistant"
    /\ wsPc' = "connect"
    /\ wsLog' = Append(wsLog, "connect")
    /\ UNCHANGED <<cancelled, trading_pairs, raising, wsEnded, connected, primary_symbol, sent,
                   received, diffQueue, tradeQueue>>
    /\ UNCHANGED exceptWs

\* the factory raises: only possible while no assistant is cached; ws keeps its value
WsGetAssistantFails ==
    /\ wsPc = "get_ws" /\ wsEnded = "running" /\ sessions < MaxSessions
    /\ ws_assistant = None
    /\ sessions' = sessions + 1
    /\ Caught
    /\ UNCHANGED <<cancelled, trading_pairs, ws_assistant, ws, wsEnded, connected, primary_symbol,
                   sent, received, diffQueue, tradeQueue>>
    /\ UNCHANGED exceptWs

\* ws.connect returns; _subscribe_channels runs up to its first send
WsConnect ==
    /\ wsPc = "connect"
    /\ connected' = TRUE
    /\ sent' = << >>
    /\ primary_symbol' = PrimaryAfterLoop(trading_pairs)
    /\ IF primary_symbol'.bound
       THEN wsPc' = "send_ticker" /\ raising' = raising /\ wsLog' = wsLog
       ELSE Caught    \* UnboundLocalError building the payload, re-raised to the loop
    /\ UNCHANGED <<cancelled, trading_pairs, ws_assistant, ws, wsEnded, received, diffQueue,
                   tradeQueue, sessions>>
    /\ UNCHANGED exceptWs

WsConnectFails ==
    /\ wsPc = "connect"
    /\ Caught
    /\ UNCHANGED <<cancelled, trading_pairs, ws_assistant, ws, wsEnded, connected, primary_symbol,
                   sent, received, diffQueue, tradeQueue, sessions>>
    /\ UNCHANGED exceptWs

\* await ws.send(subscribe_trade_request)
WsSendTicker ==
    /\ wsPc = "send_ticker"
    /\ sent' = Append(sent, Ticker \o primary_symbol.val)
    /\ wsPc' = "send_orderbook"
    /\ UNCHANGED <<cancelled, trading_pairs, ws_assistant, ws, raising, wsEnded, connected,
                   primary_symbol, received, diffQueue, tradeQueue, sessions, wsLog>>
    /\ UNCHANGED exceptWs

\* await ws.send(subscribe_orderbook_request); then the async for loop waits for a message
WsSendOrderbook ==
    /\ wsPc = "send_orderbook"
    /\ sent' = Append(sent, Orderbook \o primary_symbol.val)
    /\ wsPc' = "recv"
    /\ UNCHANGED <<cancelled, trading_pairs, ws_assistant, ws, raising, wsEnded, connected,
                   primary_symbol, received, diffQueue, tradeQueue, sessions, wsLog>>
    /\ UNCHANGED exceptWs

\* either send raises: _subscribe_channels logs and re-raises
WsSendFails ==
    /\ wsPc \in {"send_ticker", "send_orderbook"}
    /\ Caught
    /\ UNCHANGED <<cancelled, trading_pairs, ws_assistant, ws, wsEnded, connected, primary_symbol,
                   sent, received, diffQueue, tradeQueue, sessions>>
    /\ UNCHANGED exceptWs

\* iter_messages yields a message and the loop body runs on it
WsReceive(data) ==
    /\ wsPc = "recv" /\ Len(received) < MaxMsgs
    /\ received' = Append(received, data)
    /\ LET to == Route(data) IN
       /\ diffQueue' = IF to = DIFF_EVENT_TYPE THEN Append(diffQueue, data) ELSE diffQueue
       /\ tradeQueue' = IF to = TRADE_EVENT_TYPE THEN Append(tradeQueue, data) ELSE tradeQueue
       /\ IF to = "raise" THEN Caught ELSE UNCHANGED <<wsPc, raising, wsLog>>
    /\ UNCHANGED <<cancelled, trading_pairs, ws_assistant, ws, wsEnded, connected, primary_symbol,
                   sent, sessions>>
    /\ UNCHANGED exceptWs

\* iter_messages raises
WsReceiveFails ==
    /\ wsPc = "recv"
    /\ Caught
    /\ UNCHANGED <<cancelled, trading_pairs, ws_assistant, ws, wsEnded, connected, primary_symbol,
                   sent, received, diffQueue, tradeQueue, sessions>>
    /\ UNCHANGED exceptWs

\* iter_messages ends (the connection was closed): the try block is left normally
WsStreamEnds ==
    /\ wsPc = "recv"
    /\ wsPc' = "disconnect"
    /\ wsLog' = Finally(Append(wsLog, "eos"))
    /\ UNCHANGED <<cancelled, trading_pairs, ws_assistant, ws, raising, wsEnded, connected,
                   primary_symbol, sent, received, diffQueue, tradeQueue, sessions>>
    /\ UNCHANGED exceptWs

\* the 5 second sleep of the except block is over: the finally block runs
WsSleepDone ==
    /\ wsPc = "sleep"
    /\ wsPc' = "disconnect"
    /\ wsLog' = Finally(wsLog)
    /\ UNCHANGED <<cancelled, trading_pairs, ws_assistant, ws, raising, wsEnded, connected,
                   primary_symbol, sent, received, diffQueue, tradeQueue, sessions>>
    /\ UNCHANGED exceptWs

\* the task is cancelled at an await of the try or except block: CancelledError is
\* re-raised and the finally block runs with it in flight; _get_ws_assistant suspends
\* only while it has to ask the factory for the assistant
WsCancel ==
    /\ wsPc \in {"get_ws", "connect", "send_ticker", "send_orderbook", "recv", "sleep"}
    /\ wsPc = "get_ws" => ws_assistant = None
    /\ wsEnded = "running"
    /\ raising' = "CancelledError"
    /\ cancelled' = TRUE
    /\ wsPc' = "disconnect"
    /\ wsLog' = Finally(Append(wsLog, "cancel"))
    /\ UNCHANGED <<trading_pairs, ws_assistant, ws, wsEnded, connected, primary_symbol,
                   sent, received, diffQueue, tradeQueue, sessions>>
    /\ UNCHANGED exceptWs

AfterFinally_LoopsAgain ==
    wsPc' = "get_ws" /\ wsEnded' = wsEnded

\* what follows the finally block: the exception in flight ends the task, otherwise
\* the while loop goes round
AfterFinally ==
    IF raising = None
    THEN wsPc' = "get_ws" /\ wsEnded' = wsEnded
    ELSE wsPc' = "done" /\ wsEnded' = raising

\* finally: ws and await ws.disconnect()
WsDisconnect ==
    /\ wsPc = "disconnect"
    /\ connected' = IF ws = None THEN connected ELSE FALSE
    /\ AfterFinally
    /\ raising' = None
    /\ UNCHANGED <<cancelled, trading_pairs, ws_assistant, ws, primary_symbol, sent, received,
                   diffQueue, tradeQueue, sessions, wsLog>>
    /\ UNCHANGED exceptWs

\* ws.disconnect() raises: the exception leaves the finally block and the while loop,
\* in place of whatever was in flight
WsDisconnectRaises ==
    /\ wsPc = "disconnect" /\ ws # None
    /\ wsPc' = "done"
    /\ wsEnded' = "Exception"
    /\ raising' = None
    /\ UNCHANGED <<cancelled, trading_pairs, ws_assistant, ws, connected, primary_symbol,
                   sent, received, diffQueue, tradeQueue, sessions, wsLog>>
    /\ UNCHANGED exceptWs

\* the task is cancelled while it waits for ws.disconnect()
WsCancelInDisconnect ==
    /\ wsPc = "disconnect" /\ ws # None
    /\ wsPc' = "done"
    /\ wsEnded' = "CancelledError"
    /\ cancelled' = TRUE
    /\ raising' = None
    /\ wsLog' = Append(wsLog, "cancel")
    /\ UNCHANGED <<trading_pairs, ws_assistant, ws, connected, primary_symbol,
                   sent, received, diffQueue, tradeQueue, sessions>>
    /\ UNCHANGED exceptWs

InitSubscriptions(pairs) ==
    /\ trading_pairs = pairs
    /\ ws_assistant = None
    /\ ws = None
    /\ wsPc = "get_ws"
    /\ raising = None
    /\ wsEnded = "running"
    /\ cancelled = FALSE
    /\ connected = FALSE
    /\ primary_symbol = Unbound
    /\ sent = << >>
    /\ received = << >>
    /\ diffQueue = << >>
    /\ tradeQueue = << >>
    /\ sessions = 0
    /\ wsLog = << >>

NextSubscriptions ==
    \/ WsGetAssistant
    \/ WsGetAssistantFails
    \/ WsConnect
    \/ WsConnectFails
    \/ WsSendTicker
    \/ WsSendOrderbook
    \/ WsSendFails
    \/ \E data \in Messages : WsReceive(data)
    \/ WsReceiveFails
    \/ WsStreamEnds
    \/ WsSleepDone
    \/ WsCancel
    \/ WsDisconnect
    \/ WsDisconnectRaises
    \/ WsCancelInDisconnect

\* ------------------------------------------------------------------ listen_for_user_stream
\* ws_response.data of the private channel: a JSON object as the sequence of its items,
\* so that len(data) is its number of items; << >> is the empty payload
UserMessages ==
    { << >>,
      << <<"Event", "BalanceChanged">> >>,
      << <<"Event", "OrderChanged">>, <<"Nonce", "1">> >> }

\* if len(data) > 0: output.put_nowait(data)
PutOnOutput_Always(queue, data) == Append(queue, data)

PutOnOutput(queue, data) == IF Len(data) > 0 THEN Append(queue, data) ELSE queue

\* the finally block is entered with the log so far: ws and await ws.disconnect() invokes
\* disconnect at once; with ws still None the block goes on to await self._sleep(5)
UsFinally(log) ==
    IF usWs = None
    THEN usPc' = "sleep" /\ usLog' = Append(log, "sleep")
    ELSE usPc' = "disconnect" /\ usLog' = Append(log, "disconnect")

\* except Exception: log the error; the finally block follows
UsCaught ==
    /\ usRaising' = None
    /\ UsFinally(Append(usLog, "error"))

\* ws = await self._get_ws_assistant(): the cached assistant, or a new one from the factory
UsGetAssistant ==
    /\ usPc = "get_ws" /\ usEnded = "running" /\ usSessions < MaxSessions
    /\ usSessions' = usSessions + 1
    /\ user_ws_assistant' = "assistant"
    /\ usWs' = "assistant"
    /\ usPc' = "connect"
    /\ usLog' = Append(usLog, "connect")
    /\ UNCHANGED <<usRaising, usEnded, usCancelled, usReceived, output, usLastRecv>>
    /\ UNCHANGED exceptUs

\* the factory raises: only possible while no assistant is cached; ws keeps its value
UsGetAssistantFails ==
    /\ usPc = "get_ws" /\ usEnded = "running" /\ usSessions < MaxSessions
    /\ user_ws_assistant = None
    /\ usSessions' = usSessions + 1
    /\ UsCaught
    /\ UNCHANGED <<user_ws_assistant, usWs, usEnded, usCancelled, usReceived, output, usLastRecv>>
    /\ UNCHANGED exceptUs

\* await ws.connect(...) returns
UsConnect ==
    /\ usPc = "connect"
    /\ usPc' = "ping"
    /\ UNCHANGED <<user_ws_assistant, usWs, usRaising, usEnded, usCancelled, usReceived, output,
                   usSessions, usLog, usLastRecv>>
    /\ UNCHANGED exceptUs

UsConnectFails ==
    /\ usPc = "connect"
    /\ UsCaught
    /\ UNCHANGED <<user_ws_assistant, usWs, usEnded, usCancelled, usReceived, output, usSessions, usLastRecv>>
    /\ UNCHANGED exceptUs

\* await ws.ping() returns (the pong is a reception); the async for loop waits for a message
UsPing ==
    /\ usPc = "ping"
    /\ usPc' = "recv"
    /\ usLastRecv' = usLastRecv + 1
    /\ UNCHANGED <<user_ws_assistant, usWs, usRaising, usEnded, usCancelled, usReceived, output,
                   usSessions, usLog>>
    /\ UNCHANGED exceptUs

UsPingFails ==
    /\ usPc = "ping"
    /\ UsCaught
    /\ UNCHANGED <<user_ws_assistant, usWs, usEnded, usCancelled, usReceived, output, usSessions, usLastRecv>>
    /\ UNCHANGED exceptUs

\* iter_messages yields a message and the loop body runs on it
UsReceive(data) ==
    /\ usPc = "recv" /\ Len(usReceived) < MaxUserMsgs
    /\ usReceived' = Append(usReceived, data)
    /\ output' = PutOnOutput(output, data)
    /\ usLastRecv' = usLastRecv + 1
    /\ UNCHANGED <<user_ws_assistant, usWs, usPc, usRaising, usEnded, usCancelled, usSessions,
                   usLog>>
    /\ UNCHANGED exceptUs

\* iter_messages raises
UsReceiveFails ==
    /\ usPc = "recv"
    /\ UsCaught
    /\ UNCHANGED <<user_ws_assistant, usWs, usEnded, usCancelled, usReceived, output, usSessions, usLastRecv>>
    /\ UNCHANGED exceptUs

\* iter_messages ends: the try block is left normally
UsStreamEnds ==
    /\ usPc = "recv"
    /\ UsFinally(Append(usLog, "eos"))
    /\ UNCHANGED <<user_ws_assistant, usWs, usRaising, usEnded, usCancelled, usReceived, output,
                   usSessions, usLastRecv>>
    /\ UNCHANGED exceptUs

\* the task is cancelled at an await of the try block: CancelledError is re-raised and the
\* finally block runs with it in flight; _get_ws_assistant suspends only while it has to
\* ask the factory for the assistant
UsCancel ==
    /\ usPc \in {"get_ws", "connect", "ping", "recv"}
    /\ usPc = "get_ws" => user_ws_assistant = None
    /\ usEnded = "running"
    /\ usRaising' = "CancelledError"
    /\ usCancelled' = TRUE
    /\ UsFinally(Append(usLog, "cancel"))
    /\ UNCHANGED <<user_ws_assistant, usWs, usEnded, usReceived, output, usSessions, usLastRecv>>
    /\ UNCHANGED exceptUs

\* what follows the finally block: the exception in flight ends the task, otherwise
\* the while loop goes round
UsAfterFinally ==
    IF usRaising = None
    THEN usPc' = "get_ws" /\ usEnded' = usEnded
    ELSE usPc' = "done" /\ usEnded' = usRaising

\* finally: ws.disconnect() returns and await self._sleep(5) starts
UsDisconnect ==
    /\ usPc = "disconnect"
    /\ usPc' = "sleep"
    /\ usLog' = Append(usLog, "sleep")
    /\ UNCHANGED <<user_ws_assistant, usWs, usRaising, usEnded, usCancelled, usReceived, output,
                   usSessions, usLastRecv>>
    /\ UNCHANGED exceptUs

\* ws.disconnect() raises: the exception leaves the finally block and the while loop,
\* in place of whatever was in flight
UsDisconnectRaises ==
    /\ usPc = "disconnect"
    /\ usPc' = "done"
    /\ usEnded' = "Exception"
    /\ usRaising' = None
    /\ UNCHANGED <<user_ws_assistant, usWs, usCancelled, usReceived, output, usSessions, usLog, usLastRecv>>
    /\ UNCHANGED exceptUs

\* the task is cancelled while the finally block waits for ws.disconnect() or sleeps
UsCancelInFinally ==
    /\ usPc \in {"disconnect", "sleep"}
    /\ usPc' = "done"
    /\ usEnded' = "CancelledError"
    /\ usCancelled' = TRUE
    /\ usRaising' = None
    /\ usLog' = Append(usLog, "cancel")
    /\ UNCHANGED <<user_ws_assistant, usWs, usReceived, output, usSessions, usLastRecv>>
    /\ UNCHANGED exceptUs

\* the 5 second sleep of the finally block is over
UsSleepDone ==
    /\ usPc = "sleep"
    /\ UsAfterFinally
    /\ usRaising' = None
    /\ UNCHANGED <<user_ws_assistant, usWs, usCancelled, usReceived, output, usSessions, usLog, usLastRecv>>
    /\ UNCHANGED exceptUs

last_recv_time_Swapped == IF user_ws_assistant # None THEN 0 ELSE usLastRecv

\* the property last_recv_time of the user stream data source
last_recv_time ==
    IF user_ws_assistant # None THEN usLastRecv ELSE 0

InitUserStream ==
    /\ user_ws_assistant = None
    /\ usWs = None
    /\ usPc = "get_ws"
    /\ usRaising = None
    /\ usEnded = "running"
    /\ usCancelled = FALSE
    /\ usReceived = << >>
    /\ output = << >>
    /\ usSessions = 0
    /\ usLog = << >>
    /\ usLastRecv = 0

NextUserStream ==
    \/ UsGetAssistant
    \/ UsGetAssistantFails
    \/ UsConnect
    \/ UsConnectFails
    \/ UsPing
    \/ UsPingFails
    \/ \E data \in UserMessages : UsReceive(data)
    \/ UsReceiveFails
    \/ UsStreamEnds
    \/ UsCancel
    \/ UsDisconnect
    \/ UsDisconnectRaises
    \/ UsCancelInFinally
    \/ UsSleepDone

\* ------------------------------------------------------------------ order book messages
\* str.lower() and str.upper() of one character, for the letters of the modelled codes
Letters == << <<"a", "A">>, <<"b", "B">>, <<"d", "D">>, <<"e", "E">>, <<"h", "H">>,
              <<"s", "S">>, <<"t", "T">>, <<"u", "U">>, <<"x", "X">> >>

LowerChar(c) ==
    IF \E i \in 1..Len(Letters) : Letters[i][2] = c
    THEN Letters[CHOOSE i \in 1..Len(Letters) : Letters[i][2] = c][1]
    ELSE c

UpperChar(c) ==
    IF \E i \in 1..Len(Letters) : Letters[i][1] = c
    THEN Letters[CHOOSE i \in 1..Len(Letters) : Letters[i][1] = c][2]
    ELSE c

\* str.lower()
Lower(str) == [i \in 1..Len(str) |-> LowerChar(str[i])]

\* str.capitalize(): the first character in upper case, the others in lower case
Capitalize(str) == [i \in 1..Len(str) |-> IF i = 1 THEN UpperChar(str[i]) ELSE LowerChar(str[i])]

\* ''.join(self._trading_pairs)
RECURSIVE Join(_)
Join(strs) == IF Len(strs) = 0 THEN << >> ELSE Head(strs) \o Join(Tail(strs))

\* a dict with ordered items <<key, value>>: key in d, d[key], and the key the loop
\* `for key, value in d.items()` leaves in its variable
HasKey(items, key) == \E i \in 1..Len(items) : items[i][1] = key
Lookup(items, key) == items[CHOOSE i \in 1..Len(items) : items[i][1] = key][2]
LastKey(items) == IF Len(items) = 0 THEN Unbound ELSE Bound(items[Len(items)][1])

\* str(x) of a number, float(0), and ts * 1e-3
Str(x) == [str |-> x]
FloatZero == [float |-> "0"]
Milli(ts) == [value |-> ts, times |-> "1e-3"]

\* what a normalizer gives back: a message, or the exception it raised
Ok(message) == [kind |-> "ok", message |-> message]
Raise(error) == [kind |-> "raise", error |-> error]

\* the order types of the exchange
LimitBid == <<"L", "i", "m", "i", "t", "B", "i", "d">>
LimitOffer == <<"L", "i", "m", "i", "t", "O", "f", "f", "e", "r">>
MarketBid == <<"M", "a", "r", "k", "e", "t", "B", "i", "d">>
MarketOffer == <<"M", "a", "r", "k", "e", "t", "O", "f", "f", "e", "r">>

\* "LimitBid" in msg["Data"]["OrderType"]: word is a substring of order_type
Contains(order_type, word) ==
    \E i \in 0..(Len(order_type) - Len(word)) : SubSeq(order_type, i + 1, i + Len(word)) = word

\* strptime(s.split(".")[0], '%Y-%m-%dT%H:%M:%S') and int(s.split(".")[1][:-1]) on a
\* timestamp text given as tokens: "DATE" is one well-formed date and time, digits are
\* digits, anything else is some other character
Digits == {"0", "1", "2", "3", "4", "5", "6", "7", "8", "9"}

ParseCreated(text) ==
    LET pieces == Split(text, ".") IN
    IF pieces[1] # <<"DATE">> THEN "ValueError"
    ELSE IF Len(pieces) < 2 THEN "IndexError"
    ELSE LET digits == SubSeq(pieces[2], 1, Len(pieces[2]) - 1) IN
         IF Len(digits) = 0 \/ \E i \in 1..Len(digits) : digits[i] \notin Digits
         THEN "ValueError"
         ELSE "ok"

OrderBookMessage(type, content, timestamp) ==
    [type |-> type, content |-> content, timestamp |-> timestamp]

\* the update of a NewOrder event, priced in fiat
NewOrderUpdate(msg, trading_pair, fiat) ==
    LET data == msg.Data
        entry == << <<Str(Lookup(data.Price, fiat)), Str(data.Volume)>> >>
        zero == << <<FloatZero, FloatZero>> >>
    IN  [trading_pair |-> trading_pair, order_type |-> data.OrderType,
         order_guid |-> data.OrderGuid, update_id |-> msg.Nonce,
         bids |-> IF Contains(data.OrderType, LimitOffer) THEN zero ELSE entry,
         asks |-> IF Contains(data.OrderType, LimitOffer) THEN entry ELSE zero,
         event |-> msg.Event]

\* the websocket branch of diff_message_from_exchange, after msg.update(metadata)
DiffFromEvent(msg, timestamp, trading_pair) ==
    LET parts == Split(trading_pair, "-") IN
    IF Len(parts) < 2 THEN Raise("IndexError")
    ELSE IF "Event" \notin DOMAIN msg THEN Raise("KeyError")
    ELSE IF msg.Event \notin {"NewOrder", "OrderCanceled", "OrderChanged"}
    THEN Raise("UnboundLocalError")    \* no branch assigns update
    ELSE IF "Data" \notin DOMAIN msg \/ "OrderType" \notin DOMAIN msg.Data THEN Raise("KeyError")
    ELSE LET fiat == Lower(parts[2])
             data == msg.Data
         IN
         IF msg.Event = "NewOrder"
         THEN IF ~Contains(data.OrderType, LimitBid) /\ ~Contains(data.OrderType, LimitOffer)
              THEN Raise("UnboundLocalError")
              ELSE IF ~HasKey(data.Price, fiat) \/ "Nonce" \notin DOMAIN msg THEN Raise("KeyError")
              ELSE Ok(OrderBookMessage("DIFF", NewOrderUpdate(msg, trading_pair, fiat), timestamp))
         ELSE IF msg.Event = "OrderCanceled"
         THEN IF "Nonce" \notin DOMAIN msg THEN Raise("KeyError")
              ELSE Ok(OrderBookMessage("DIFF",
                        [trading_pair |-> trading_pair, order_type |-> data.OrderType,
                         order_guid |-> data.OrderGuid, update_id |-> msg.Nonce,
                         event |-> msg.Event], timestamp))
         ELSE IF data.OrderType \notin {MarketBid, LimitBid, MarketOffer, LimitOffer}
         THEN Raise("UnboundLocalError")
         ELSE IF "Nonce" \notin DOMAIN msg THEN Raise("KeyError")
         ELSE Ok(OrderBookMessage("DIFF",
                        [trading_pair |-> trading_pair, order_type |-> data.OrderType,
                         order_guid |-> data.OrderGuid, update_id |-> msg.Nonce,
                         price |-> data.Volume, event |-> msg.Event], timestamp))

\* IndependentreserveOrderBook.diff_message_from_exchange(msg, timestamp, metadata) with
\* metadata = {"trading_pair": trading_pair}
diff_message_from_exchange(msg, timestamp, trading_pair) ==
    IF "Channel" \in DOMAIN msg THEN DiffFromEvent(msg, timestamp, trading_pair)
    ELSE IF "CreatedTimestampUtc" \notin DOMAIN msg THEN Raise("KeyError")
    ELSE IF ParseCreated(msg.CreatedTimestampUtc) # "ok" THEN Raise(ParseCreated(msg.CreatedTimestampUtc))
    ELSE IF ~({"Nonce", "BuyOrders", "SellOrders"} \subseteq DOMAIN msg) THEN Raise("KeyError")
    ELSE Ok(OrderBookMessage("DIFF",
                [trading_pair |-> trading_pair, update_id |-> msg.Nonce,
                 bids |-> msg.BuyOrders, asks |-> msg.SellOrders], timestamp))

\* IndependentreserveOrderBook.trade_message_from_exchange(msg, metadata) with
\* metadata = {"trading_pair": trading_pair}
trade_message_from_exchange(msg, trading_pair) ==
    IF "Time" \notin DOMAIN msg THEN Raise("KeyError")
    ELSE IF "Data" \notin DOMAIN msg \/ "Price" \notin DOMAIN msg.Data THEN Raise("KeyError")
    ELSE LET currencies == Split(trading_pair, "-")
             data == msg.Data
         IN
         IF Len(data.Price) > 0 /\ Len(currencies) < 2 THEN Raise("IndexError")
         ELSE IF "Side" \notin DOMAIN data \/ "TradeGuid" \notin DOMAIN data
                 \/ "Nonce" \notin DOMAIN msg THEN Raise("KeyError")
         ELSE IF Len(data.Price) = 0 \/ ~HasKey(data.Price, currencies[2])
         THEN Raise("UnboundLocalError")    \* price was never assigned
         ELSE Ok(OrderBookMessage("TRADE",
                    [trading_pair |-> trading_pair,
                     trade_type |-> IF data.Side = "Sell" THEN "SELL" ELSE "BUY",
                     trade_id |-> data.TradeGuid, update_id |-> msg.Nonce,
                     price |-> Lookup(data.Price, currencies[2]), amount |-> data.Volume],
                    Milli(msg.Time)))

\* ------------------------------------------------------------------ listen_for_order_book_diffs, listen_for_trades
PriceUsdAud == << <<Lower(USD), "70">>, <<Lower(AUD), "100">> >>
PriceAud == << <<Lower(AUD), "100">> >>

OrderData(order_type, price) ==
    [OrderType |-> order_type, OrderGuid |-> "guid", Volume |-> "2", Price |-> price]

OrderEvent(event, nonce, order_type, price) ==
    [Channel |-> Orderbook \o Lower(XBT), Event |-> event, Nonce |-> nonce,
     Data |-> OrderData(order_type, price)]

TradeEvent(nonce, side, price) ==
    [Channel |-> Ticker \o Lower(XBT), Event |-> "Trade", Nonce |-> nonce, Time |-> 5000,
     Data |-> [TradeGuid |-> "trade", Side |-> side, Volume |-> "2", Price |-> price]]

\* what the message queues of a data source are fed with
LoopMessages ==
    { OrderEvent("NewOrder", 1, LimitBid, PriceUsdAud),
      OrderEvent("NewOrder", 2, LimitOffer, PriceAud),
      OrderEvent("NewOrder", 3, MarketBid, PriceUsdAud),
      OrderEvent("OrderCanceled", 4, LimitOffer, PriceUsdAud),
      OrderEvent("OrderChanged", 5, MarketOffer, PriceUsdAud),
      [Channel |-> Orderbook \o Lower(XBT), Event |-> "SomethingNew", Nonce |-> 6],
      [Event |-> "NewOrder", Nonce |-> 7],
      [data |-> "x"],
      TradeEvent(8, "Sell", PriceUsdAud),
      TradeEvent(9, "Buy", << >>) }

Skip == [kind |-> "skip"]

\* the body of the try block of listen_for_order_book_diffs, up to the normalized message
DiffBody(json_msg, now) ==
    IF "data" \in DOMAIN json_msg THEN Skip
    ELSE diff_message_from_exchange(json_msg, now, Join(trading_pairs))

\* the body of the try block of listen_for_trades, up to the normalized message
TradeBody(json_msg) ==
    IF "data" \in DOMAIN json_msg THEN Skip
    ELSE IF "Channel" \notin DOMAIN json_msg THEN Raise("KeyError")
    ELSE IF "Data" \notin DOMAIN json_msg \/ "Price" \notin DOMAIN json_msg.Data THEN Raise("KeyError")
    ELSE LET primaryCurrency == Split(json_msg.Channel, "-")
             message_secondarypair == LastKey(json_msg.Data.Price)
         IN
         IF Len(primaryCurrency) < 2 THEN Raise("IndexError")
         ELSE IF ~message_secondarypair.bound THEN Raise("UnboundLocalError")
         ELSE trade_message_from_exchange(
                  json_msg, Capitalize(primaryCurrency[2]) \o <<"-">> \o message_secondarypair.val)

LoopPut_Front(queue, message) == <<message>> \o queue

\* output.put_nowait(message)
LoopPut(queue, message) == Append(queue, message)

LoopCaught_Raises == loopPc' = "done"

\* except Exception: self.logger().exception(...); the while loop goes round
LoopCaught == loopPc' = "get"

\* one round of the while loop on the message message_queue.get() returned, r being the
\* outcome of the body
LoopRound(r) ==
    /\ taken' = Append(taken, Head(message_queue))
    /\ message_queue' = Tail(message_queue)
    /\ IF r.kind = "ok"
       THEN published' = LoopPut(published, r.message) /\ UNCHANGED <<loopErrors, loopPc>>
       ELSE IF r.kind = "raise"
       THEN /\ loopErrors' = Append(loopErrors, [msg |-> Head(message_queue), error |-> r.error])
            /\ LoopCaught
            /\ UNCHANGED published
       ELSE UNCHANGED <<published, loopErrors, loopPc>>
    /\ UNCHANGED <<loopKind, loopCancelled>>
    /\ UNCHANGED exceptLoop

\* a message is put on the queue the loop reads
LoopFeed(msg) ==
    /\ Len(taken) + Len(message_queue) < MaxLoopMsgs
    /\ message_queue' = Append(message_queue, msg)
    /\ UNCHANGED <<loopKind, taken, published, loopErrors, loopPc, loopCancelled>>
    /\ UNCHANGED exceptLoop

\* listen_for_order_book_diffs: message_queue.get() returns and the round runs; the
\* timestamp is time.time(), here the number of the round
DiffStep ==
    /\ loopKind = "diff" /\ loopPc = "get" /\ Len(message_queue) > 0
    /\ LoopRound(DiffBody(Head(message_queue), Len(taken) + 1))

\* listen_for_trades: message_queue.get() returns and the round runs
TradeStep ==
    /\ loopKind = "trade" /\ loopPc = "get" /\ Len(message_queue) > 0
    /\ LoopRound(TradeBody(Head(message_queue)))

\* the task is cancelled while it waits in message_queue.get(): the message, if any,
\* stays on the queue and the CancelledError is re-raised
LoopCancel ==
    /\ loopPc = "get"
    /\ loopPc' = "done"
    /\ loopCancelled' = TRUE
    /\ UNCHANGED <<loopKind, message_queue, taken, published, loopErrors>>
    /\ UNCHANGED exceptLoop

InitLoop(kind) ==
    /\ loopKind = kind
    /\ message_queue = << >>
    /\ taken = << >>
    /\ published = << >>
    /\ loopErrors = << >>
    /\ loopPc = "get"
    /\ loopCancelled = FALSE

NextLoops ==
    \/ \E msg \in LoopMessages : LoopFeed(msg)
    \/ DiffStep
    \/ TradeStep
    \/ LoopCancel

\* ------------------------------------------------------------------ snapshot_message_from_exchange
\* [order["Price"], order["Volume"]] for every order of the list, in the list's order
PriceVolume_Reversed(orders) ==
    [i \in 1..Len(orders) |-> <<orders[Len(orders) + 1 - i].Price, orders[Len(orders) + 1 - i].Volume>>]

PriceVolume(orders) == [i \in 1..Len(orders) |-> <<orders[i].Price, orders[i].Volume>>]

\* IndependentreserveOrderBook.snapshot_message_from_exchange(msg, timestamp, metadata)
\* with metadata = {"trading_pair": trading_pair}
snapshot_message_from_exchange(msg, timestamp, trading_pair) ==
    IF "CreatedTimestampUtc" \notin DOMAIN msg THEN Raise("KeyError")
    ELSE IF ParseCreated(msg.CreatedTimestampUtc) # "ok" THEN Raise(ParseCreated(msg.CreatedTimestampUtc))
    ELSE IF "BuyOrders" \notin DOMAIN msg \/ "SellOrders" \notin DOMAIN msg THEN Raise("KeyError")
    ELSE Ok(OrderBookMessage("SNAPSHOT",
                [trading_pair |-> trading_pair, update_id |-> 0,
                 bids |-> PriceVolume(msg.BuyOrders), asks |-> PriceVolume(msg.SellOrders)],
                timestamp))

\* one order of GetOrderBook
BookOrder(order_type, price, volume) ==
    [OrderType |-> order_type, Price |-> price, Volume |-> volume]

CreatedOk == <<"DATE", ".", "1", "2", "3", "4", "5", "6", "7", "Z">>
CreatedNoFraction == <<"DATE", "Z">>

\* bodies of a GetOrderBook response
Snapshots ==
    { [CreatedTimestampUtc |-> CreatedOk,
       BuyOrders |-> <<BookOrder(LimitBid, "70", "2"), BookOrder(LimitBid, "69", "5")>>,
       SellOrders |-> <<BookOrder(LimitOffer, "71", "1")>>],
      [CreatedTimestampUtc |-> CreatedOk,
       BuyOrders |-> << >>,
       SellOrders |-> <<BookOrder(LimitOffer, "72", "3"), BookOrder(LimitOffer, "73", "1")>>],
      [CreatedTimestampUtc |-> CreatedNoFraction,
       BuyOrders |-> <<BookOrder(LimitBid, "70", "2")>>,
       SellOrders |-> << >>],
      [Message |-> "Invalid Primary Currency Code"] }

\* ------------------------------------------------------------------ listen_for_order_book_snapshots
\* an entry of the loop's log
SnapEvent(ev, pair, status) == [ev |-> ev, pair |-> pair, status |-> status]

\* response.status of rest_assistant.call
Statuses == {200, 500}

StatusOk_Any(status) == TRUE

\* get_snapshot goes on to response.json() unless response.status != 200
StatusOk(status) == status = 200

\* the pair the loop is at
CurrentPair == trading_pairs[snapIndex]

Advance_Abort(log) ==
    /\ snapPc' = "hour_sleep"
    /\ snapLog' = Append(log, SnapEvent("hour_sleep", << >>, 0))
    /\ UNCHANGED <<snapIndex, invocations>>

\* for trading_pair in self._trading_pairs: get_snapshot is invoked for the next pair,
\* or after the last pair await self._sleep(self.ONE_HOUR) starts
Advance(log) ==
    IF snapIndex < Len(trading_pairs)
    THEN /\ snapIndex' = snapIndex + 1
         /\ invocations' = invocations + 1
         /\ snapPc' = "call"
         /\ snapLog' = Append(log, SnapEvent("get_snapshot", trading_pairs[snapIndex + 1], 0))
    ELSE /\ snapPc' = "hour_sleep"
         /\ snapLog' = Append(log, SnapEvent("hour_sleep", << >>, 0))
         /\ UNCHANGED <<snapIndex, invocations>>

\* except Exception of the for loop's body: log the error, then await self._sleep(5.0)
SnapCaught(log) ==
    /\ snapPc' = "retry_sleep"
    /\ snapLog' = log \o <<SnapEvent("error", CurrentPair, 0), SnapEvent("retry_sleep", CurrentPair, 0)>>
    /\ UNCHANGED <<snapIndex, invocations>>

\* get_snapshot: rest_assistant.call returns a response
SnapCall(status) ==
    /\ snapPc = "call"
    /\ gets' = gets + 1
    /\ IF StatusOk(status)
       THEN /\ snapPc' = "json"
            /\ snapLog' = Append(snapLog, SnapEvent("GET", CurrentPair, status))
            /\ UNCHANGED <<snapIndex, invocations>>
       ELSE SnapCaught(Append(snapLog, SnapEvent("GET", CurrentPair, status)))    \* IOError
    /\ UNCHANGED <<snapPublished, snapCycle, snapCancelled>>
    /\ UNCHANGED exceptSnap

\* get_snapshot: rest_assistant.call raises (status 0 in the log: no response)
SnapCallFails ==
    /\ snapPc = "call"
    /\ gets' = gets + 1
    /\ SnapCaught(Append(snapLog, SnapEvent("GET", CurrentPair, 0)))
    /\ UNCHANGED <<snapPublished, snapCycle, snapCancelled>>
    /\ UNCHANGED exceptSnap

\* get_snapshot returns the body of the response; the snapshot message is built with
\* time.time(), here the number of the invocation, and put on the output queue
SnapJson(data) ==
    /\ snapPc = "json"
    /\ LET r == snapshot_message_from_exchange(data, invocations, CurrentPair) IN
       IF r.kind = "ok"
       THEN /\ snapPublished' = Append(snapPublished, r.message)
            /\ Advance(Append(snapLog, SnapEvent("published", CurrentPair, 0)))
       ELSE /\ SnapCaught(snapLog)
            /\ UNCHANGED snapPublished
    /\ UNCHANGED <<gets, snapCycle, snapCancelled>>
    /\ UNCHANGED exceptSnap

\* get_snapshot: response.json() raises
SnapJsonFails ==
    /\ snapPc = "json"
    /\ SnapCaught(snapLog)
    /\ UNCHANGED <<gets, snapPublished, snapCycle, snapCancelled>>
    /\ UNCHANGED exceptSnap

\* the 5 second sleep after a failed pair is over: the for loop goes on
SnapRetryDone ==
    /\ snapPc = "retry_sleep"
    /\ Advance(snapLog)
    /\ UNCHANGED <<gets, snapPublished, snapCycle, snapCancelled>>
    /\ UNCHANGED exceptSnap

\* the one hour sleep is over: the while loop starts the next cycle
SnapHourDone ==
    /\ snapPc = "hour_sleep" /\ snapCycle < MaxCycles
    /\ snapCycle' = snapCycle + 1
    /\ IF Len(trading_pairs) > 0
       THEN /\ snapIndex' = 1
            /\ invocations' = invocations + 1
            /\ snapPc' = "call"
            /\ snapLog' = Append(snapLog, SnapEvent("get_snapshot", trading_pairs[1], 0))
       ELSE /\ snapLog' = Append(snapLog, SnapEvent("hour_sleep", << >>, 0))
            /\ UNCHANGED <<snapIndex, invocations, snapPc>>
    /\ UNCHANGED <<gets, snapPublished, snapCancelled>>
    /\ UNCHANGED exceptSnap

\* the task is cancelled at one of its awaits: both except asyncio.CancelledError re-raise
SnapCancel ==
    /\ snapPc \in {"call", "json", "retry_sleep", "hour_sleep"}
    /\ snapPc' = "done"
    /\ snapCancelled' = TRUE
    /\ snapLog' = Append(snapLog, SnapEvent("cancel", << >>, 0))
    /\ UNCHANGED <<gets, snapPublished, snapCycle, snapIndex, invocations>>
    /\ UNCHANGED exceptSnap

InitSnapshots_Asleep(pairs) ==
    /\ snapCycle = 0
    /\ snapIndex = 0
    /\ invocations = 0
    /\ snapPc = "hour_sleep"
    /\ snapLog = <<SnapEvent("hour_sleep", << >>, 0)>>
    /\ gets = 0
    /\ snapPublished = << >>
    /\ snapCancelled = FALSE

\* the task has started its first cycle: get_snapshot is invoked for the first pair
InitSnapshots(pairs) ==
    /\ snapCycle = 1
    /\ snapIndex = IF Len(pairs) > 0 THEN 1 ELSE 0
    /\ invocations = IF Len(pairs) > 0 THEN 1 ELSE 0
    /\ snapPc = IF Len(pairs) > 0 THEN "call" ELSE "hour_sleep"
    /\ snapLog = IF Len(pairs) > 0 THEN <<SnapEvent("get_snapshot", pairs[1], 0)>>
                 ELSE <<SnapEvent("hour_sleep", << >>, 0)>>
    /\ gets = 0
    /\ snapPublished = << >>
    /\ snapCancelled = FALSE

NextSnapshots ==
    \/ \E status \in Statuses : SnapCall(status)
    \/ SnapCallFails
    \/ \E data \in Snapshots : SnapJson(data)
    \/ SnapJsonFails
    \/ SnapRetryDone
    \/ SnapHourDone
    \/ SnapCancel

\* ------------------------------------------------------------------ independentreserve_utils
\* strings with replacement fields are sequences of pieces, "{}" being a piece
REST_URL == <<"https://api.independentreserve.", "{}">>
PUBLIC_API_VERSION == <<"/Public">>
PRIVATE_API_VERSION == <<"/Private">>
ORDER_BOOK_PATH_URL == <<"/GetOrderBook?primaryCurrencyCode=", "{}", "&secondaryCurrencyCode=", "{}">>
ACCOUNTS_PATH_URL == <<"/GetAccounts">>

\* template.format(*args) where args has a value for every field: the fields are
\* replaced by the values in order, values without a field are ignored
RECURSIVE Format(_, _)
Format(template, args) ==
    IF Len(template) = 0 THEN << >>
    ELSE IF Head(template) = "{}" THEN Head(args) \o Format(Tail(template), Tail(args))
    ELSE <<Head(template)>> \o Format(Tail(template), args)

\* what a url builder gives back
Url(url) == [kind |-> "ok", url |-> url]

\* public_rest_url(path_url, symbols, domain); no symbols is symbols = << >>, as both
\* None and an empty value fail `if not symbols`
public_rest_url(path_url, symbols, domain) ==
    IF Len(symbols) = 0
    THEN Url(Format(REST_URL, << <<domain>> >>) \o PUBLIC_API_VERSION \o path_url)
    ELSE IF Len(symbols) < 2 THEN Raise("IndexError")
    ELSE Url(Format(REST_URL, << <<domain>> >>) \o PUBLIC_API_VERSION
             \o Format(path_url, <<symbols[1], symbols[2]>>))

private_rest_url_Public(path_url, domain) ==
    Url(Format(REST_URL, << <<domain>> >>) \o PUBLIC_API_VERSION \o path_url)

private_rest_url(path_url, domain) ==
    Url(Format(REST_URL, << <<domain>> >>) \o PRIVATE_API_VERSION \o path_url)

\* ------------------------------------------------------------------ IndependentreserveAuth
\* a value that may be None
NoValue == [none |-> TRUE, val |-> << >>]
Some(v) == [none |-> FALSE, val |-> v]

\* str(n) of a natural number
DecimalDigits == <<"0", "1", "2", "3", "4", "5", "6", "7", "8", "9">>
RECURSIVE Decimal(_)
Decimal(n) ==
    IF n < 10 THEN <<DecimalDigits[n + 1]>>
    ELSE Decimal(n \div 10) \o <<DecimalDigits[(n % 10) + 1]>>

\* ','.join(strs)
RECURSIVE JoinComma(_)
JoinComma(strs) ==
    IF Len(strs) = 0 THEN << >>
    ELSE IF Len(strs) = 1 THEN Head(strs)
    ELSE Head(strs) \o <<",">> \o JoinComma(Tail(strs))

\* data[key] = value on an OrderedDict given as items <<key, value>>: the value of a
\* key it has is replaced where the key is, a new key goes to the end
DictSet(items, key, value) ==
    IF HasKey(items, key)
    THEN [i \in 1..Len(items) |-> IF items[i][1] = key THEN <<key, value>> ELSE items[i]]
    ELSE Append(items, <<key, value>>)

\* for key in params: data[key] = params[key]
RECURSIVE DictUpdate(_, _)
DictUpdate(items, params) ==
    IF Len(params) = 0 THEN items
    ELSE DictUpdate(DictSet(items, Head(params)[1], Head(params)[2]), Tail(params))

\* int(self.time_provider.time() * 1e3) of a time given in microseconds
Timestamp(time) == time \div 1000

\* the hexdigest of the HMAC of a message under a key, as a text naming both
Hmac(key, message) == <<"HMAC(">> \o key \o <<";">> \o message \o <<")">>

\* _generate_signature(message)
generate_signature(authenticator, message) ==
    IF authenticator.secret_key.none THEN Raise("AttributeError")    \* None.encode
    ELSE [kind |-> "ok", signature |-> Hmac(authenticator.secret_key.val, message)]

\* [f"{key}={params[key]}" for key in params]
ParamStrings(params) == [i \in 1..Len(params) |-> <<params[i][1], "=">> \o params[i][2]]

\* the message add_auth_to_data signs; params = << >> is both None and the empty dict
SignedMessage_ParamsFirst(authenticator, url, params, time) ==
    JoinComma(<<url>> \o ParamStrings(params)
              \o <<<<"apiKey", "=">> \o authenticator.api_key.val,
                   <<"nonce", "=">> \o Decimal(Timestamp(time))>>)

SignedMessage(authenticator, url, params, time) ==
    JoinComma(<<url, <<"apiKey", "=">> \o authenticator.api_key.val,
                <<"nonce", "=">> \o Decimal(Timestamp(time))>> \o ParamStrings(params))

\* add_auth_to_data(url, params) of an authenticator whose time provider reads time:
\* the message handed to _generate_signature and the items of the JSON object returned
add_auth_to_data(authenticator, url, params, time) ==
    IF authenticator.api_key.none THEN Raise("TypeError")    \* "apiKey=" + None
    ELSE LET message == SignedMessage(authenticator, url, params, time)
             signed == generate_signature(authenticator, message)
         IN
         IF signed.kind # "ok" THEN signed
         ELSE [kind |-> "ok", signed |-> message,
               body |-> DictUpdate(<< <<"apiKey", authenticator.api_key.val>>,
                                      <<"nonce", Decimal(Timestamp(time))>>,
                                      <<"signature", signed.signature>> >>, params)]

\* rest_authenticate(request): request.data and request.headers are replaced
rest_authenticate(authenticator, request, time) ==
    LET data == add_auth_to_data(authenticator, request.url, request.params, time) IN
    IF data.kind # "ok" THEN data
    ELSE [kind |-> "ok", signed |-> data.signed, body |-> data.body,
          headers |-> DictUpdate(request.headers, << <<"Content-Type", <<"application/json">> >> >>)]

\* ------------------------------------------------------------------ calls of the functions
Upper(str) == [i \in 1..Len(str) |-> UpperChar(str[i])]

\* the trading pairs the functions are called with: "Xbt-Aud", "XBT-AUD", "xbt-aud", "Xbt-Usd"
CallPairs == {PairName(<<XBT, AUD>>), Upper(PairName(<<XBT, AUD>>)), Lower(PairName(<<XBT, AUD>>)),
              PairName(<<XBT, USD>>)}

\* the events the normalizers are called with
DiffEvents == {OrderEvent("NewOrder", 1, ot, PriceUsdAud) : ot \in {LimitBid, LimitOffer, MarketBid, MarketOffer}}
TradeEvents == {TradeEvent(8, "Sell", PriceUsdAud), TradeEvent(9, "Buy", PriceAud), TradeEvent(9, "Buy", << >>)}

\* api_key and secret_key an authenticator is constructed with
Credentials == {NoValue, Some(<<"k", "1">>)}

\* readings of the time provider, in microseconds
ClockReadings == {1000, 1999, 12345}

\* request parameters, as the ordered items of the parameter map
ParamMaps ==
    {<< >>,
     << <<"amount", <<"1">> >> >>,
     << <<"amount", <<"1">> >>, <<"guid", <<"g">> >> >>,
     << <<"guid", <<"g">> >>, <<"amount", <<"1">> >> >>,
     << <<"amount", <<"1">> >>, <<"nonce", <<"7">> >> >>,
     << <<"signature", <<"s">> >>, <<"apiKey", <<"k", "2">> >> >>}

PathUrls == {ACCOUNTS_PATH_URL, ORDER_BOOK_PATH_URL}
SymbolLists == {<< >>, <<XBT>>, <<XBT, USD>>}
Headers == {<< >>, << <<"Accept", <<"x">> >> >>}

\* IndependentreserveAuth(api_key, secret_key, time_provider)
Construct(api_key, secret_key) ==
    /\ ~auth.made
    /\ auth' = [made |-> TRUE, api_key |-> api_key, secret_key |-> secret_key]
    /\ called' = [fn |-> "__init__"]
    /\ returned' = [kind |-> "constructed"]
    /\ UNCHANGED clock
    /\ UNCHANGED exceptCalls

\* the time provider's clock moves on
TimePasses(time) ==
    /\ time > clock
    /\ clock' = time
    /\ UNCHANGED <<auth, called, returned>>
    /\ UNCHANGED exceptCalls

CallAddAuthToData(url, params) ==
    /\ auth.made
    /\ called' = [fn |-> "add_auth_to_data", url |-> url, params |-> params, time |-> clock]
    /\ returned' = add_auth_to_data(auth, url, params, clock)
    /\ UNCHANGED <<auth, clock>>
    /\ UNCHANGED exceptCalls

CallRestAuthenticate(request) ==
    /\ auth.made
    /\ called' = [fn |-> "rest_authenticate", url |-> request.url, params |-> request.params,
                headers |-> request.headers, time |-> clock]
    /\ returned' = rest_authenticate(auth, request, clock)
    /\ UNCHANGED <<auth, clock>>
    /\ UNCHANGED exceptCalls

CallPublicRestUrl(path_url, symbols, domain) ==
    /\ called' = [fn |-> "public_rest_url", path_url |-> path_url, symbols |-> symbols, domain |-> domain]
    /\ returned' = public_rest_url(path_url, symbols, domain)
    /\ UNCHANGED <<auth, clock>>
    /\ UNCHANGED exceptCalls

CallPrivateRestUrl(path_url, domain) ==
    /\ called' = [fn |-> "private_rest_url", path_url |-> path_url, domain |-> domain]
    /\ returned' = private_rest_url(path_url, domain)
    /\ UNCHANGED <<auth, clock>>
    /\ UNCHANGED exceptCalls

\* msg.update(metadata) with metadata = {"trading_pair": trading_pair}: the dict msg
\* itself gets the key
Update(msg, trading_pair) ==
    [k \in DOMAIN msg \cup {"trading_pair"} |-> IF k = "trading_pair" THEN trading_pair ELSE msg[k]]

\* the dict given to snapshot_message_from_exchange, after the call: the update comes
\* after the timestamp and the order lists have been read
SnapshotInputAfter(msg, timestamp, trading_pair) ==
    IF snapshot_message_from_exchange(msg, timestamp, trading_pair).kind = "ok"
    THEN Update(msg, trading_pair)
    ELSE msg

CallSnapshotMessage(msg, timestamp, trading_pair) ==
    /\ called' = [fn |-> "snapshot_message_from_exchange", msg |-> msg, timestamp |-> timestamp,
                trading_pair |-> trading_pair,
                msg_after |-> SnapshotInputAfter(msg, timestamp, trading_pair)]
    /\ returned' = snapshot_message_from_exchange(msg, timestamp, trading_pair)
    /\ UNCHANGED <<auth, clock>>
    /\ UNCHANGED exceptCalls

CallDiffMessage(msg, timestamp, trading_pair) ==
    /\ called' = [fn |-> "diff_message_from_exchange", msg |-> msg, timestamp |-> timestamp,
                trading_pair |-> trading_pair, msg_after |-> Update(msg, trading_pair)]
    /\ returned' = diff_message_from_exchange(msg, timestamp, trading_pair)
    /\ UNCHANGED <<auth, clock>>
    /\ UNCHANGED exceptCalls

CallTradeMessage(msg, trading_pair) ==
    /\ called' = [fn |-> "trade_message_from_exchange", msg |-> msg, trading_pair |-> trading_pair,
                msg_after |-> Update(msg, trading_pair)]
    /\ returned' = trade_message_from_exchange(msg, trading_pair)
    /\ UNCHANGED <<auth, clock>>
    /\ UNCHANGED exceptCalls

\* ------------------------------------------------------------------ CreatedTimestampUtc
\* int(digits)
RECURSIVE IntOf(_)
IntOf(digits) ==
    IF Len(digits) = 0 THEN 0
    ELSE 10 * IntOf(SubSeq(digits, 1, Len(digits) - 1))
         + (CHOOSE d \in 0..9 : DecimalDigits[d + 1] = digits[Len(digits)])

\* datetime.timedelta(microseconds=n / 1000): the quotient is rounded to the nearest
\* whole microsecond, a half to the even one
RoundedThousandth(n) ==
    LET q == n \div 1000
        r == n % 1000
    IN  IF r > 500 \/ (r = 500 /\ q % 2 = 1) THEN q + 1 ELSE q

\* the microseconds added to t: int(msg["CreatedTimestampUtc"].split(".")[1][:-1]) / 1000
\* as datetime.timedelta takes it
CreatedMicroseconds(text) ==
    IF ParseCreated(text) # "ok" THEN Raise(ParseCreated(text))
    ELSE LET fraction == Split(text, ".")[2] IN
         [kind |-> "ok",
          microseconds |-> RoundedThousandth(IntOf(SubSeq(fraction, 1, Len(fraction) - 1)))]

\* timestamps of the exchange: a date and time, ".", fraction digits and "Z"
Created(digits) == <<"DATE", ".">> \o digits \o <<"Z">>
Fractions == {<<"1", "2", "3", "4", "5", "6", "7">>, <<"1", "2", "3", "4", "5", "6">>,
              <<"1", "2">>, <<"1", "2", "0">>, <<"0", "0", "0", "1", "5", "0", "0">>,
              <<"0", "0", "0", "2", "5", "0", "0">>, <<"5">>}

\* the timestamp lines of snapshot_message_from_exchange and diff_message_from_exchange
CallCreatedTimestamp(text) ==
    /\ called' = [fn |-> "CreatedTimestampUtc", text |-> text]
    /\ returned' = CreatedMicroseconds(text)
    /\ UNCHANGED <<auth, clock>>
    /\ UNCHANGED exceptCalls

\* no authenticator has been constructed and no function has been called
InitCalls ==
    /\ auth = [made |-> FALSE]
    /\ clock = CHOOSE t \in ClockReadings : \A u \in ClockReadings : t <= u
    /\ called = [fn |-> "none"]
    /\ returned = [kind |-> "none"]

NextCalls ==
    \/ \E api_key \in Credentials, secret_key \in Credentials : Construct(api_key, secret_key)
    \/ \E time \in ClockReadings : TimePasses(time)
    \/ \E path_url \in PathUrls, domain \in Domains, params \in ParamMaps :
          CallAddAuthToData(private_rest_url(path_url, domain).url, params)
    \/ \E path_url \in PathUrls, domain \in Domains, params \in ParamMaps, headers \in Headers :
          CallRestAuthenticate([url |-> private_rest_url(path_url, domain).url,
                                params |-> params, headers |-> headers])
    \/ \E path_url \in PathUrls, symbols \in SymbolLists, domain \in Domains :
          CallPublicRestUrl(path_url, symbols, domain)
    \/ \E path_url \in PathUrls, domain \in Domains : CallPrivateRestUrl(path_url, domain)
    \/ \E msg \in Snapshots, trading_pair \in CallPairs : CallSnapshotMessage(msg, clock, trading_pair)
    \/ \E msg \in DiffEvents, trading_pair \in CallPairs : CallDiffMessage(msg, clock, trading_pair)
    \/ \E msg \in TradeEvents, trading_pair \in CallPairs : CallTradeMessage(msg, trading_pair)
    \/ \E digits \in Fractions : CallCreatedTimestamp(Created(digits))
    \/ CallCreatedTimestamp(CreatedNoFraction)

\* ------------------------------------------------------------------ _get_rest_assistant, _get_ws_assistant
\* self._rest_assistant (or self._ws_assistant) is None
NoAssistant == [made |-> FALSE, id |-> 0]
\* the id-th assistant the factory built
Assistant(id) == [made |-> TRUE, id |-> id]

\* a caller enters the getter: `if self._rest_assistant is None` is evaluated and, when
\* it holds, the factory is asked and the caller is suspended in the await; otherwise
\* the cached assistant is returned at once
GetAssistantBegin(t) ==
    /\ getPc[t] = "idle" /\ getsBegun < MaxGets
    /\ getsBegun' = getsBegun + 1
    /\ IF cachedAssistant = NoAssistant
       THEN /\ getPc' = [getPc EXCEPT ![t] = "asking"]
            /\ factoryAsked' = factoryAsked + 1
            /\ UNCHANGED getGot
       ELSE /\ getGot' = [getGot EXCEPT ![t] = cachedAssistant]
            /\ UNCHANGED <<getPc, factoryAsked>>
    /\ UNCHANGED <<assistantKind, cachedAssistant, factoryBuilt>>
    /\ UNCHANGED exceptGet

\* the factory gives the caller a new assistant: it is stored in the attribute, and the
\* attribute is returned
GetAssistantReturns(t) ==
    /\ getPc[t] = "asking"
    /\ factoryBuilt' = factoryBuilt + 1
    /\ cachedAssistant' = Assistant(factoryBuilt + 1)
    /\ getGot' = [getGot EXCEPT ![t] = Assistant(factoryBuilt + 1)]
    /\ getPc' = [getPc EXCEPT ![t] = "idle"]
    /\ UNCHANGED <<assistantKind, factoryAsked, getsBegun>>
    /\ UNCHANGED exceptGet

\* the factory raises, or the caller is cancelled while it waits for the factory
GetAssistantFails(t) ==
    /\ getPc[t] = "asking"
    /\ getPc' = [getPc EXCEPT ![t] = "idle"]
    /\ UNCHANGED <<assistantKind, cachedAssistant, factoryAsked, factoryBuilt, getGot, getsBegun>>
    /\ UNCHANGED exceptGet

\* a data source whose assistant of one kind ("rest" or "ws") has not been asked for
InitAssistants(kind) ==
    /\ assistantKind = kind
    /\ cachedAssistant = NoAssistant
    /\ factoryAsked = 0
    /\ factoryBuilt = 0
    /\ getPc = [t \in Tasks |-> "idle"]
    /\ getGot = [t \in Tasks |-> NoAssistant]
    /\ getsBegun = 0

NextAssistants ==
    \/ \E t \in Tasks : GetAssistantBegin(t)
    \/ \E t \in Tasks : GetAssistantReturns(t)
    \/ \E t \in Tasks : GetAssistantFails(t)

\* ------------------------------------------------------------------ REST calls under the throttler
\* the limit ids of the throttler contexts a function enters, in order
TICKER_PRICE_CHANGE_PATH_URL == <<"/GetRecentTrades?primaryCurrencyCode=", "{}", "&secondaryCurrencyCode=", "{}",
                                  "&numberOfRecentTradesToRetrieve=50">>
PRIMARY_CURRENCY_CODES_PATH_URL == <<"/GetValidPrimaryCurrencyCodes">>
SECONDARY_CURRENCY_CODES_PATH_URL == <<"/GetValidSecondaryCurrencyCodes">>

LimitIds(op) ==
    CASE op = "get_snapshot" -> <<ORDER_BOOK_PATH_URL>>
      [] op = "_get_last_traded_price" -> <<TICKER_PRICE_CHANGE_PATH_URL>>
      [] op = "get_all_mid_prices" -> <<TICKER_PRICE_CHANGE_PATH_URL>>
      [] op = "_init_trading_pair_symbols" ->
            <<PRIMARY_CURRENCY_CODES_PATH_URL, SECONDARY_CURRENCY_CODES_PATH_URL>>

RestOps == {"get_snapshot", "_get_last_traded_price", "get_all_mid_prices", "_init_trading_pair_symbols"}

\* the limit id of the context the function is at
CurrentLimit == LimitIds(restOp)[restBlock]

RestEvent(ev, limit_id) == [ev |-> ev, limit_id |-> limit_id]

\* response.json() is awaited inside the context: always in get_all_mid_prices, for
\* status 200 in the others (get_snapshot raises IOError on any other status)
ReadsJson(op, status) == op = "get_all_mid_prices" \/ status = 200

\* what follows a context: the next context of _init_trading_pair_symbols, whose
\* try blocks catch Exception, or the end of the function
AfterContext(how) ==
    IF restBlock < Len(LimitIds(restOp)) /\ how # "cancelled"
    THEN restBlock' = restBlock + 1 /\ restPc' = "acquire"
    ELSE restBlock' = restBlock /\ restPc' = "done"

ExitContext_LeakOnRaise(how) ==
    /\ restHeld' = IF how = "returned" THEN SubSeq(restHeld, 1, Len(restHeld) - 1) ELSE restHeld
    /\ restLog' = restLog \o (IF how = "returned"
                              THEN <<RestEvent("returned", CurrentLimit), RestEvent("release", CurrentLimit)>>
                              ELSE <<RestEvent("raised", CurrentLimit)>>)
    /\ AfterContext(how)

\* the body of `async with throttler.execute_task(limit_id=...)` is left, normally
\* ("returned") or by an exception ("raised", "cancelled"): __aexit__ gives the permit back
ExitContext(how) ==
    /\ restHeld' = SubSeq(restHeld, 1, Len(restHeld) - 1)
    /\ restLog' = restLog \o <<RestEvent(IF how = "returned" THEN "returned" ELSE "raised", CurrentLimit),
                               RestEvent("release", CurrentLimit)>>
    /\ AfterContext(how)

\* __aenter__ returns: the permit is held and rest_assistant.call is started
RestAcquire ==
    /\ restPc = "acquire"
    /\ restHeld' = Append(restHeld, CurrentLimit)
    /\ restLog' = restLog \o <<RestEvent("acquire", CurrentLimit), RestEvent("call", CurrentLimit)>>
    /\ restPc' = "call"
    /\ UNCHANGED <<restOp, restBlock, restCancelled, restRuns>>
    /\ UNCHANGED exceptRest

\* rest_assistant.call returns a response
RestCallReturns(status) ==
    /\ restPc = "call"
    /\ IF ReadsJson(restOp, status)
       THEN /\ restPc' = "json"
            /\ UNCHANGED <<restHeld, restLog, restBlock>>
       ELSE ExitContext(IF restOp = "get_snapshot" THEN "raised" ELSE "returned")
    /\ UNCHANGED <<restOp, restCancelled, restRuns>>
    /\ UNCHANGED exceptRest

\* rest_assistant.call or response.json() raises
RestRaises ==
    /\ restPc \in {"call", "json"}
    /\ ExitContext("raised")
    /\ UNCHANGED <<restOp, restCancelled, restRuns>>
    /\ UNCHANGED exceptRest

\* response.json() returns
RestJsonReturns ==
    /\ restPc = "json"
    /\ ExitContext("returned")
    /\ UNCHANGED <<restOp, restCancelled, restRuns>>
    /\ UNCHANGED exceptRest

\* the task is cancelled: while it waits for the permit nothing is held and no call is
\* made; inside the context CancelledError leaves it like any exception
RestCancel ==
    /\ restPc \in {"acquire", "call", "json"}
    /\ restCancelled' = TRUE
    /\ IF restPc = "acquire"
       THEN /\ restPc' = "done"
            /\ UNCHANGED <<restHeld, restLog, restBlock>>
       ELSE ExitContext("cancelled")
    /\ UNCHANGED <<restOp, restRuns>>
    /\ UNCHANGED exceptRest

\* the function is called again
RestAgain(op) ==
    /\ restPc = "done" /\ ~restCancelled /\ restRuns < MaxRestRuns
    /\ restRuns' = restRuns + 1
    /\ restOp' = op
    /\ restBlock' = 1
    /\ restPc' = "acquire"
    /\ UNCHANGED <<restHeld, restLog, restCancelled>>
    /\ UNCHANGED exceptRest

\* a function that makes REST calls has been called and waits for its first permit
InitRest(op) ==
    /\ restOp = op
    /\ restBlock = 1
    /\ restPc = "acquire"
    /\ restHeld = << >>
    /\ restLog = << >>
    /\ restCancelled = FALSE
    /\ restRuns = 1

NextRest ==
    \/ RestAcquire
    \/ \E status \in Statuses : RestCallReturns(status)
    \/ RestRaises
    \/ RestJsonReturns
    \/ RestCancel
    \/ \E op \in RestOps : RestAgain(op)

\* ------------------------------------------------------------------ specifications
\* the symbol map used by concurrent tasks (no websocket loop running)
InitMapTasks ==
    /\ InitSubscriptions(<< >>)
    /\ InitSymbolMap
    /\ InitUserStream
    /\ InitLoop("diff")
    /\ InitSnapshots(<< >>)
    /\ InitCalls
    /\ InitAssistants("rest")
    /\ InitRest("get_snapshot")

SpecSymbolMap == InitMapTasks /\ [][NextSymbolMap]_vars

\* one data source running listen_for_subscriptions
InitListener ==
    /\ \E pairs \in TrackedLists : InitSubscriptions(pairs)
    /\ InitSymbolMap
    /\ InitUserStream
    /\ InitLoop("diff")
    /\ InitSnapshots(<< >>)
    /\ InitCalls
    /\ InitAssistants("rest")
    /\ InitRest("get_snapshot")

SpecSubscriptions == InitListener /\ [][NextSubscriptions]_vars

\* one user stream data source running listen_for_user_stream
InitUserListener ==
    /\ InitSubscriptions(<< >>)
    /\ InitSymbolMap
    /\ InitUserStream
    /\ InitLoop("diff")
    /\ InitSnapshots(<< >>)
    /\ InitCalls
    /\ InitAssistants("rest")
    /\ InitRest("get_snapshot")

SpecUserStream == InitUserListener /\ [][NextUserStream]_vars

\* one task running the diff loop or the trade loop of a data source
InitLoops ==
    /\ \E pairs \in TrackedLists : InitSubscriptions(pairs)
    /\ InitSymbolMap
    /\ InitUserStream
    /\ \E kind \in {"diff", "trade"} : InitLoop(kind)
    /\ InitSnapshots(<< >>)
    /\ InitCalls
    /\ InitAssistants("rest")
    /\ InitRest("get_snapshot")

SpecLoops == InitLoops /\ [][NextLoops]_vars

\* one task running the snapshot loop of a data source
InitSnapshotTask ==
    /\ \E pairs \in TrackedLists : InitSubscriptions(pairs) /\ InitSnapshots(pairs)
    /\ InitSymbolMap
    /\ InitUserStream
    /\ InitLoop("diff")
    /\ InitCalls
    /\ InitAssistants("rest")
    /\ InitRest("get_snapshot")

SpecSnapshots == InitSnapshotTask /\ [][NextSnapshots]_vars

\* calls of the authenticator, the url builders and the normalizers
InitCallTask ==
    /\ InitSubscriptions(<< >>)
    /\ InitSymbolMap
    /\ InitUserStream
    /\ InitLoop("diff")
    /\ InitSnapshots(<< >>)
    /\ InitCalls
    /\ InitAssistants("rest")
    /\ InitRest("get_snapshot")

SpecCalls == InitCallTask /\ [][NextCalls]_vars

\* concurrent callers of an assistant getter
InitGetters ==
    /\ InitSubscriptions(<< >>)
    /\ InitSymbolMap
    /\ InitUserStream
    /\ InitLoop("diff")
    /\ InitSnapshots(<< >>)
    /\ InitCalls
    /\ \E kind \in {"rest", "ws"} : InitAssistants(kind)
    /\ InitRest("get_snapshot")

SpecAssistants == InitGetters /\ [][NextAssistants]_vars

\* one task making REST calls under the throttler
InitRestTask ==
    /\ InitSubscriptions(<< >>)
    /\ InitSymbolMap
    /\ InitUserStream
    /\ InitLoop("diff")
    /\ InitSnapshots(<< >>)
    /\ InitCalls
    /\ InitAssistants("rest")
    /\ \E op \in RestOps : InitRest(op)

SpecRestCalls == InitRestTask /\ [][NextRest]_vars

\* either of the two loops running alone: the loops share no state, and the one that
\* takes the first step is the one the run follows
InitEitherStream ==
    /\ \E pairs \in TrackedLists : InitSubscriptions(pairs)
    /\ InitSymbolMap
    /\ InitUserStream
    /\ InitLoop("diff")
    /\ InitSnapshots(<< >>)
    /\ InitCalls
    /\ InitAssistants("rest")
    /\ InitRest("get_snapshot")

NextEitherStream ==
    \/ usLog = << >> /\ NextSubscriptions
    \/ wsLog = << >> /\ NextUserStream

SpecEitherStream == InitEitherStream /\ [][NextEitherStream]_vars

\* ------------------------------------------------------------------ symbol map: properties
Product(prim, sec) == {<<prim[i], sec[j]>> : i \in 1..Len(prim), j \in 1..Len(sec)}

\* the task's operation went through trading_pair_symbol_map and got a map back
Returned(c) == pc[c] = "idle" /\ call[c].op \in MapOps /\ result[c].kind \in {"ok", "KeyError"}

\* C1: as long as no initialization of a domain has failed (failed fetch, empty list,
\* cancellation), _init_trading_pair_symbols has been started at most once for it, and
\* every task that got the domain's map back got the populated map of that one run.
C1_SingleInitializer ==
    \A d \in Domains : initFailed[d] = 0 =>
        /\ initStarts[d] <= 1
        /\ restCalls[d] <= 2
        /\ \A c \in Tasks : (Returned(c) /\ call[c].domain = d) =>
              /\ initStarts[d] = 1
              /\ trading_pair_symbol_map_ready(symbolMap, d)
              /\ result[c].map = symbolMap[d]

\* a task that had to wait for the lock got the map another task populated
C1_Witness ==
    \E d \in Domains, c \in Tasks :
        /\ initFailed[d] = 0 /\ initStarts[d] = 1 /\ restCalls[d] = 2
        /\ Returned(c) /\ call[c].domain = d /\ waited[c]
        /\ result[c].map = symbolMap[d]
        /\ trading_pair_symbol_map_ready(symbolMap, d)

FullMap(m, prim, sec) ==
    /\ DOMAIN m = Product(prim, sec)
    /\ \A k \in DOMAIN m : m[k] = k[1] \o <<"-">> \o k[2]

\* C2: the map stored for a domain is absent, or empty, or has one entry for every
\* combination of the two fetched lists; the same holds of every map handed to a caller.
C2_NeverPartial ==
    \A d \in Domains :
        /\ \/ d \notin DOMAIN symbolMap
           \/ DOMAIN symbolMap[d] = {}
           \/ FullMap(symbolMap[d], fetched[d][1], fetched[d][2])
        /\ \A c \in Tasks : (Returned(c) /\ call[c].domain = d) =>
              \/ DOMAIN result[c].map = {}
              \/ FullMap(result[c].map, fetched[d][1], fetched[d][2])

C2_Witness ==
    \E d \in Domains, c \in Tasks :
        /\ d \in DOMAIN symbolMap
        /\ Cardinality(DOMAIN symbolMap[d]) = 4
        /\ fetched[d] = << <<XBT, ETH>>, <<USD, AUD>> >>
        /\ Returned(c) /\ call[c].domain = d /\ result[c].map = symbolMap[d]

\* task c ends an initialization in which a currency-code fetch failed
InitFailsStep(c) ==
    \/ FetchSecondaryFails(c)
    \/ ~primary_data[c].bound /\ \E codes \in SecondaryLists : FetchSecondaryOk(c, codes)

\* task c starts an operation that needs the map of a domain that is not ready
StartsUnready(c) ==
    /\ pc[c] = "idle" /\ calls' = calls + 1
    /\ call'[c].op \in MapOps
    /\ (call'[c] # call[c] \/ result'[c] # result[c] \/ pc'[c] # pc[c])
    /\ ~trading_pair_symbol_map_ready(symbolMap, call'[c].domain)

\* C3: when an initialization ends after a failed fetch, the domain's map is as before
\* and not ready, the lock is free and the call has raised; and a call for a domain that
\* is not ready never returns directly: it starts an initialization or queues for the lock.
C3_FailedInitRetried ==
    [][\A c \in Tasks :
        /\ InitFailsStep(c) =>
              /\ symbolMap' = symbolMap
              /\ ~trading_pair_symbol_map_ready(symbolMap', call[c].domain)
              /\ lockHolder' = None
              /\ result'[c].kind \notin {"ok", "KeyError", "none"}
        /\ StartsUnready(c) =>
              \/ pc'[c] = "wait_lock" /\ lockHolder # None
              \/ /\ pc'[c] = "fetch_primary" /\ lockHolder' = c
                 /\ initStarts'[call'[c].domain] = initStarts[call'[c].domain] + 1
      ]_vars

\* one task's initialization failed on a fetch, another task's later call populated the map
C3_Witness ==
    \E d \in Domains, c1, c2 \in Tasks :
        /\ c1 # c2
        /\ call[c1].domain = d /\ result[c1].kind = "UnboundLocalError"
        /\ call[c2].domain = d /\ Returned(c2)
        /\ initStarts[d] = 2 /\ restCalls[d] = 4
        /\ trading_pair_symbol_map_ready(symbolMap, d)

\* C4: on a populated map, symbol -> pair -> symbol gives back every fetched
\* (primary, secondary) symbol, and pair -> symbol -> pair every trading pair of the map.
C4_RoundTrip ==
    \A d \in Domains : trading_pair_symbol_map_ready(symbolMap, d) =>
        LET m == symbolMap[d] IN
        /\ \A symbol \in Product(fetched[d][1], fetched[d][2]) :
              LET r1 == trading_pair_associated_to_exchange_symbol(m, symbol) IN
              /\ r1.kind = "ok"
              /\ LET r2 == exchange_symbol_associated_to_pair(m, r1.pair) IN
                 r2.kind = "ok" /\ r2.symbol = symbol
        /\ \A trading_pair \in {m[k] : k \in DOMAIN m} :
              LET r1 == exchange_symbol_associated_to_pair(m, trading_pair) IN
              /\ r1.kind = "ok"
              /\ LET r2 == trading_pair_associated_to_exchange_symbol(m, r1.symbol) IN
                 r2.kind = "ok" /\ r2.pair = trading_pair

\* a task translated Eth-Aud to (Eth, Aud) on a populated map
C4_Witness ==
    \E c \in Tasks :
        /\ Returned(c) /\ call[c].op = "exchange_symbol_associated_to_pair"
        /\ trading_pair_symbol_map_ready(symbolMap, call[c].domain)
        /\ result[c].kind = "ok" /\ result[c].symbol = <<ETH, AUD>>
        /\ call[c].pair = <<"E", "t", "h", "-", "A", "u", "d">>

\* C5: a step taken while a domain's map is populated leaves that map as it is and
\* neither starts an initialization nor makes a currency-code call for that domain.
C5_PopulatedIsFrozen ==
    [][\A d \in Domains : trading_pair_symbol_map_ready(symbolMap, d) =>
          /\ d \in DOMAIN symbolMap'
          /\ symbolMap'[d] = symbolMap[d]
          /\ initStarts'[d] = initStarts[d]
          /\ restCalls'[d] = restCalls[d]
      ]_vars

\* with one domain populated, a task listed its pairs and the other domain was
\* being initialized
C5_Witness ==
    \E d, e \in Domains, c \in Tasks :
        /\ d # e
        /\ trading_pair_symbol_map_ready(symbolMap, d)
        /\ initStarts[d] = 1 /\ initStarts[e] = 1
        /\ Returned(c) /\ call[c].domain = d /\ call[c].op = "fetch_trading_pairs"
        /\ result[c].pairs = {symbolMap[d][k] : k \in DOMAIN symbolMap[d]}

\* C6: a lookup whose key is not in the map it was made on ends in KeyError.
C6_AbsentKeyRaises ==
    \A c \in Tasks : Returned(c) =>
        /\ (/\ call[c].op = "trading_pair_associated_to_exchange_symbol"
            /\ call[c].symbol \notin DOMAIN result[c].map) => result[c].kind = "KeyError"
        /\ (/\ call[c].op = "exchange_symbol_associated_to_pair"
            /\ \A k \in DOMAIN result[c].map : result[c].map[k] # call[c].pair)
              => result[c].kind = "KeyError"

\* both lookups were made with a key missing from a populated map
C6_Witness ==
    \E c1, c2 \in Tasks :
        /\ Returned(c1) /\ call[c1].op = "trading_pair_associated_to_exchange_symbol"
        /\ Returned(c2) /\ call[c2].op = "exchange_symbol_associated_to_pair"
        /\ \A c \in {c1, c2} :
              /\ Cardinality(DOMAIN result[c].map) > 0
              /\ result[c].map = symbolMap[call[c].domain]
              /\ result[c].kind = "KeyError"

\* ------------------------------------------------------------------ listen_for_subscriptions: properties
\* the step in which iter_messages yields data
Receives(data) == wsPc = "recv" /\ received' = Append(received, data)

Range(seq) == {seq[i] : i \in 1..Len(seq)}

\* C7: a Heartbeat or Subscriptions message goes to neither queue, raises nothing and
\* leaves the session streaming.
C7_HeartbeatDiscarded ==
    [][\A data \in Messages :
        (Receives(data) /\ GetEvent(data) \in {"Heartbeat", "Subscriptions"}) =>
            /\ diffQueue' = diffQueue /\ tradeQueue' = tradeQueue
            /\ wsPc' = "recv" /\ connected' /\ raising' = None
      ]_vars

\* C8: order events go once to the diff queue only, trade events once to the trade queue
\* only, every other message to neither queue, and that one does not end the session.
C8_Routing ==
    [][\A data \in Messages : Receives(data) =>
        LET e == GetEvent(data) IN
        /\ e \in {"NewOrder", "OrderChanged", "OrderCanceled"} =>
              diffQueue' = Append(diffQueue, data) /\ tradeQueue' = tradeQueue
        /\ e = "Trade" =>
              tradeQueue' = Append(tradeQueue, data) /\ diffQueue' = diffQueue
        /\ e \notin {"NewOrder", "OrderChanged", "OrderCanceled", "Trade"} =>
              /\ diffQueue' = diffQueue /\ tradeQueue' = tradeQueue
              /\ wsPc' = "recv" /\ connected'
      ]_vars

\* C9: once a session is subscribed, ticker-<P> and orderbook-<P> have been sent on it
\* for the primary code P of every tracked pair.
C9_SubscribesEveryPair ==
    wsPc = "recv" =>
        \A i \in 1..Len(trading_pairs) :
            LET P == exchange_primary_currency_in_pair(trading_pairs[i]) IN
            /\ (Ticker \o P) \in Range(sent)
            /\ (Orderbook \o P) \in Range(sent)

\* C10: the task ends only when it has been cancelled.
C10_EndsOnlyByCancel == wsPc = "done" => cancelled

\* ------------------------------------------------------------------ listen_for_subscriptions: reconnects
\* positions of the log at which a session ended without cancellation
Ends(log) == {i \in 1..Len(log) : log[i] \in {"error", "eos"}}

\* the first connection attempt after position i, or 0
NextConnect(log, i) ==
    IF \E j \in (i + 1)..Len(log) : log[j] = "connect"
    THEN CHOOSE j \in (i + 1)..Len(log) :
            log[j] = "connect" /\ \A k \in (i + 1)..(j - 1) : log[k] # "connect"
    ELSE 0

\* how many times event e is logged strictly between positions i and j
Count(log, e, i, j) == Cardinality({k \in (i + 1)..(j - 1) : log[k] = e})

\* C11: without cancellation the task never ends while an error of a session (connect,
\* subscribe, receive) is still waiting for its new connection attempt.
C11_ErrorRetried ==
    (wsPc = "done" /\ ~cancelled) =>
        \A i \in 1..Len(wsLog) : wsLog[i] = "error" => NextConnect(wsLog, i) # 0

\* C12: between the end of a session that was not cancelled (error or end of the message
\* stream) and the next connection attempt, exactly one backoff sleep is started.
C12_OneBackoffPerEnd ==
    \A i \in Ends(wsLog) :
        NextConnect(wsLog, i) # 0 => Count(wsLog, "sleep", i, NextConnect(wsLog, i)) = 1

\* the number of times event e is in the log
Times(log, e) == Cardinality({k \in 1..Len(log) : log[k] = e})

\* C13: from the cancellation on, no connection attempt is made and no backoff sleep is
\* started; the task is in its finally block or has ended, and it ends with the
\* CancelledError unless disconnect itself raised.
C13_CancelPropagates ==
    [][cancelled' =>
        /\ Times(wsLog', "connect") = Times(wsLog, "connect")
        /\ Times(wsLog', "sleep") = Times(wsLog, "sleep")
        /\ wsPc' \in {"disconnect", "done"}
        /\ (wsPc' = "done" /\ ~WsDisconnectRaises) => wsEnded' = "CancelledError"
      ]_vars

\* cancelled during the backoff sleep, and ended with the CancelledError
C13_Witness ==
    /\ wsPc = "done" /\ wsEnded = "CancelledError"
    /\ \E i \in 1..(Len(wsLog) - 1) : wsLog[i] = "sleep" /\ wsLog[i + 1] = "cancel"

\* ------------------------------------------------------------------ listen_for_user_stream: properties
\* C15: once listen_for_user_stream is cancelled, the session is disconnected and the
\* task ends without starting the backoff sleep.
C15_CancelSkipsBackoff ==
    \A i \in 1..Len(usLog) : usLog[i] = "cancel" =>
        \A j \in (i + 1)..Len(usLog) : usLog[j] # "sleep"

NonEmpty(data) == Len(data) > 0

\* C16: the output queue holds exactly the non-empty messages received, each once and in
\* the order received, whatever the number of reconnects.
C16_OutputIsNonEmptyReceived ==
    output = SelectSeq(usReceived, NonEmpty)

\* two different messages around an empty one, with a reconnect
C16_Witness ==
    /\ usSessions = 2
    /\ Len(usReceived) = 3 /\ usReceived[2] = << >>
    /\ Len(output) = 2 /\ output[1] # output[2]

\* ------------------------------------------------------------------ both loops: properties
\* log is the log of a loop and ended says that its task is over: every iteration that
\* obtained the assistant (it logs "connect") has at most one disconnect, and exactly
\* one once the next connection attempt is made or the task is over
DisconnectsOnce(log, ended) ==
    \A i \in 1..Len(log) : log[i] = "connect" =>
        LET j == NextConnect(log, i)
            n == Count(log, "disconnect", i, IF j = 0 THEN Len(log) + 1 ELSE j)
        IN  /\ n <= 1
            /\ (j # 0 \/ ended) => n = 1

\* C14: in both loops, an iteration that obtained the websocket assistant invokes
\* disconnect exactly once before the next connection attempt or the end of the task.
C14_DisconnectOncePerIteration ==
    /\ DisconnectsOnce(wsLog, wsPc = "done")
    /\ DisconnectsOnce(usLog, usPc = "done")

\* listen_for_subscriptions left one iteration by the end of the stream and the next by
\* cancellation, with a disconnect for each
C14_Witness ==
    /\ wsPc = "done" /\ cancelled
    /\ Times(wsLog, "eos") = 1 /\ Times(wsLog, "connect") = 2 /\ Times(wsLog, "disconnect") = 2

\* both loops running side by side, as in the connector, while no message arrives: what
\* ends a session here is an error, the end of the stream or a cancellation
InitBothStreams ==
    /\ InitSubscriptions(<<PairName(<<XBT, USD>>)>>)
    /\ InitSymbolMap
    /\ InitUserStream
    /\ InitLoop("diff")
    /\ InitSnapshots(<< >>)
    /\ InitCalls
    /\ InitAssistants("rest")
    /\ InitRest("get_snapshot")

NextBothStreams ==
    \/ WsGetAssistant
    \/ WsGetAssistantFails
    \/ WsConnect
    \/ WsConnectFails
    \/ WsSendTicker
    \/ WsSendOrderbook
    \/ WsSendFails
    \/ WsReceiveFails
    \/ WsStreamEnds
    \/ WsSleepDone
    \/ WsCancel
    \/ WsDisconnect
    \/ WsDisconnectRaises
    \/ WsCancelInDisconnect
    \/ UsGetAssistant
    \/ UsGetAssistantFails
    \/ UsConnect
    \/ UsConnectFails
    \/ UsPing
    \/ UsPingFails
    \/ UsReceiveFails
    \/ UsStreamEnds
    \/ UsCancel
    \/ UsDisconnect
    \/ UsDisconnectRaises
    \/ UsCancelInFinally
    \/ UsSleepDone

SpecBothStreams == InitBothStreams /\ [][NextBothStreams]_vars

EndKinds == {"error", "eos", "cancel"}

\* positions at which a session that had reached its connection attempt ended
SessionEnds(log) == {i \in 2..Len(log) : log[i] \in EndKinds /\ log[i - 1] = "connect"}

\* the steps that follow the end at position i, up to the next connection attempt or
\* to the end of the task
StepsAfter(log, i) ==
    LET j == NextConnect(log, i) IN
    IF j # 0 THEN SubSeq(log, i + 1, j) ELSE SubSeq(log, i + 1, Len(log)) \o <<"terminate">>

\* the end at position i has run its course with nothing else interfering: it was
\* followed by a reconnect or by the task ending with the CancelledError, with no second
\* error or cancellation on the way
RanItsCourse(log, i, endedWith) ==
    /\ NextConnect(log, i) # 0 \/ endedWith = "CancelledError"
    /\ \A k \in 1..Len(StepsAfter(log, i)) : StepsAfter(log, i)[k] \notin EndKinds

\* C17: whenever a session of the public loop and a session of the private loop end the
\* same way (error, end of stream, cancellation), the two loops go through the same
\* sequence of disconnect, backoff sleep and reconnect-or-terminate steps.
C17_SameDiscipline ==
    \A i \in SessionEnds(wsLog), j \in SessionEnds(usLog) :
        ( /\ wsLog[i] = usLog[j]
          /\ RanItsCourse(wsLog, i, wsEnded)
          /\ RanItsCourse(usLog, j, usEnded) ) => StepsAfter(wsLog, i) = StepsAfter(usLog, j)

\* ------------------------------------------------------------------ diff and trade loops: properties
\* the outcome of the loop's body on the k-th message it took
BodyOf(k) ==
    IF loopKind = "diff" THEN DiffBody(taken[k], k) ELSE TradeBody(taken[k])

\* the messages the first k messages taken normalize to, in the order taken
RECURSIVE Normalized(_)
Normalized(k) ==
    IF k = 0 THEN << >>
    ELSE Normalized(k - 1) \o (IF BodyOf(k).kind = "ok" THEN <<BodyOf(k).message>> ELSE << >>)

\* C18: the output of the diff loop and of the trade loop is, in order, what the messages
\* taken from the input queue normalize to, at most one output message per input message.
C18_OutputIsNormalizedInput ==
    /\ published = Normalized(Len(taken))
    /\ Len(published) <= Len(taken)

\* the diff loop published two different messages and dropped a third
C18_Witness ==
    /\ loopKind = "diff" /\ Len(taken) = 3
    /\ Len(published) = 2 /\ published[1] # published[2]

\* a websocket event (it has a Channel) whose Event is none of the three order events
UnknownEvent(msg) ==
    /\ "Channel" \in DOMAIN msg /\ "Event" \in DOMAIN msg
    /\ msg.Event \notin {"NewOrder", "OrderChanged", "OrderCanceled"}

\* C19: with one tracked pair, the diff loop reports no error for a websocket event
\* whose Event is none of NewOrder, OrderChanged, OrderCanceled.
C19_UnknownEventIsNoOp ==
    (loopKind = "diff" /\ Len(trading_pairs) = 1) =>
        \A k \in 1..Len(loopErrors) : ~UnknownEvent(loopErrors[k].msg)

\* C20: a round that logs an error takes exactly its one message, leaves the output as it
\* was and leaves the loop running; the task ends only by cancellation.
C20_ErrorDropsOneMessage ==
    [][ /\ loopErrors' # loopErrors =>
              /\ Len(loopErrors') = Len(loopErrors) + 1
              /\ taken' = Append(taken, Head(message_queue))
              /\ message_queue' = Tail(message_queue)
              /\ published' = published
              /\ loopPc' = "get"
        /\ loopPc' = "done" => loopCancelled'
      ]_vars

\* the trade loop published a message, logged an error for the next one and published
\* the one after it
C20_Witness ==
    /\ loopKind = "trade" /\ Len(taken) = 3 /\ Len(published) = 2
    /\ Len(loopErrors) = 1 /\ loopErrors[1].msg = taken[2]

\* ------------------------------------------------------------------ last_recv_time: properties
\* C30: last_recv_time of the user stream data source is 0 while no websocket assistant
\* has been created, and the assistant's last receive time from then on.
C30_LastRecvTime ==
    /\ user_ws_assistant = None => last_recv_time = 0
    /\ user_ws_assistant # None => last_recv_time = usLastRecv

\* the assistant exists and has received something in two sessions
C30_Witness ==
    /\ user_ws_assistant # None /\ usSessions = 2
    /\ usLastRecv >= 2 /\ last_recv_time = usLastRecv

\* ------------------------------------------------------------------ snapshot loop: properties
\* the positions of the log holding an event of one kind
At(ev) == {i \in 1..Len(snapLog) : snapLog[i].ev = ev}

\* the position where the cycle of position i began: after the last hour sleep before i
CycleStart(i) ==
    LET before == {j \in At("hour_sleep") : j < i} IN
    IF before = {} THEN 1 ELSE (CHOOSE j \in before : \A k \in before : k <= j) + 1

\* the get_snapshot invocations of the cycle of position i that began before i, in order
FetchedBefore(i) == SelectSeq(SubSeq(snapLog, CycleStart(i), i - 1), LAMBDA e : e.ev = "get_snapshot")

\* C21: a failure for one tracked pair does not abort the cycle: nothing is published for
\* that pair, the retry delay is awaited, and the loop then goes on with the next tracked
\* pair, reaching the one-hour wait only when every tracked pair has been fetched.
C21_FailureDoesNotAbortCycle ==
    /\ \A i \in At("error") :
          LET n == Len(FetchedBefore(i)) IN
          /\ n >= 1 /\ FetchedBefore(i)[n].pair = snapLog[i].pair
          /\ snapLog[i].pair = trading_pairs[n]
          /\ \A j \in At("published") : ~(CycleStart(j) = CycleStart(i) /\ Len(FetchedBefore(j)) = n)
          /\ i + 1 <= Len(snapLog) /\ snapLog[i + 1].ev = "retry_sleep"
          /\ i + 2 <= Len(snapLog) =>
                \/ snapLog[i + 2].ev = "cancel"
                \/ /\ n < Len(trading_pairs)
                   /\ snapLog[i + 2] = SnapEvent("get_snapshot", trading_pairs[n + 1], 0)
                \/ /\ n = Len(trading_pairs)
                   /\ snapLog[i + 2].ev = "hour_sleep"
    /\ \A h \in At("hour_sleep") :
          [k \in 1..Len(FetchedBefore(h)) |-> FetchedBefore(h)[k].pair] = trading_pairs

\* the first of two tracked pairs failed, the second was published, and the hour wait began
C21_Witness ==
    /\ Len(trading_pairs) = 2 /\ Len(snapLog) >= 7
    /\ snapLog[3].ev = "error" /\ snapLog[3].pair = trading_pairs[1]
    /\ snapLog[5] = SnapEvent("get_snapshot", trading_pairs[2], 0)
    /\ snapLog[7].ev = "published" /\ snapLog[7].pair = trading_pairs[2]
    /\ Len(snapPublished) = 1 /\ snapPublished[1].content.trading_pair = trading_pairs[2]
    /\ snapPc = "hour_sleep"

\* ------------------------------------------------------------------ get_snapshot: properties
\* the position of the next invocation after position i, or the end of the log
InvocationEnd(i) ==
    LET later == {j \in At("get_snapshot") \cup At("cancel") : j > i} IN
    IF later = {} THEN Len(snapLog) + 1 ELSE CHOOSE j \in later : \A k \in later : j <= k

\* the requests of the invocation that began at position i
RequestsOf(i) == {j \in At("GET") : i < j /\ j < InvocationEnd(i)}

\* C22: an invocation of get_snapshot issues one REST GET, and a response whose status is
\* not 200 ends the invocation in an error: no data is returned and no second request is made.
C22_OneGetPerInvocation ==
    /\ \A i \in At("get_snapshot") :
          /\ Cardinality(RequestsOf(i)) <= 1
          /\ (snapPc # "call" \/ InvocationEnd(i) <= Len(snapLog)) /\ ~snapCancelled
                => Cardinality(RequestsOf(i)) = 1
    /\ gets = Cardinality(At("GET"))
    /\ \A j \in At("GET") :
          snapLog[j].status # 200 =>
             /\ j + 1 <= Len(snapLog) /\ snapLog[j + 1] = SnapEvent("error", snapLog[j].pair, 0)
             /\ \A k \in At("published") : k > j => \E i \in At("get_snapshot") : j < i /\ i < k

\* a response with status 500 was followed by an invocation for the next pair that
\* got status 200 and was published
C22_Witness ==
    /\ Len(trading_pairs) = 2 /\ Len(snapLog) >= 7 /\ gets = 2 /\ invocations = 2
    /\ snapLog[2] = SnapEvent("GET", trading_pairs[1], 500)
    /\ snapLog[6] = SnapEvent("GET", trading_pairs[2], 200)
    /\ snapLog[7].ev = "published"

\* ------------------------------------------------------------------ snapshot_message_from_exchange: properties
\* the side of a snapshot has the (Price, Volume) pairs of the orders, in their order
SameSide(side, orders) ==
    /\ Len(side) = Len(orders)
    /\ \A i \in 1..Len(orders) : side[i] = <<orders[i].Price, orders[i].Volume>>

\* C28: the snapshot message has the (Price, Volume) pairs of BuyOrders as bids and those
\* of SellOrders as asks, in the exchange's order and of the same length, and update_id 0.
C28_SnapshotKeepsOrders ==
    called.fn = "snapshot_message_from_exchange" /\ returned.kind = "ok" =>
        /\ returned.message.type = "SNAPSHOT"
        /\ SameSide(returned.message.content.bids, called.msg.BuyOrders)
        /\ SameSide(returned.message.content.asks, called.msg.SellOrders)
        /\ returned.message.content.update_id = 0

\* a snapshot of two bids at different prices and one ask was normalized
C28_Witness ==
    /\ called.fn = "snapshot_message_from_exchange" /\ returned.kind = "ok"
    /\ Len(called.msg.BuyOrders) = 2 /\ Len(called.msg.SellOrders) = 1
    /\ called.msg.BuyOrders[1].Price # called.msg.BuyOrders[2].Price
    /\ Len(returned.message.content.bids) = 2

Signing == called.fn \in {"add_auth_to_data", "rest_authenticate"}

\* the keys of the items of a map, in order
Keys(items) == [i \in 1..Len(items) |-> items[i][1]]

\* C23: the message signed is the comma-joined list of the url, apiKey=<key>,
\* nonce=<timestamp> and <key>=<value> for every request parameter in the parameter map's
\* order, and nothing else.
C23_SignedMessage ==
    Signing /\ returned.kind = "ok" =>
        LET pieces == Split(returned.signed, ",") IN
        /\ Len(pieces) = 3 + Len(called.params)
        /\ pieces[1] = called.url
        /\ pieces[2] = <<"apiKey", "=">> \o auth.api_key.val
        /\ pieces[3] = <<"nonce", "=">> \o Decimal(called.time \div 1000)
        /\ \A i \in 1..Len(called.params) :
              pieces[3 + i] = <<called.params[i][1], "=">> \o called.params[i][2]

\* a request with the parameters guid and amount, in this order, was signed at 12 ms
C23_Witness ==
    /\ called.fn = "add_auth_to_data" /\ returned.kind = "ok"
    /\ Keys(called.params) = <<"guid", "amount">>
    /\ called.time = 12345
    /\ Split(returned.signed, ",")[3] = <<"nonce", "=", "1", "2">>

\* C24: the keys of the body are apiKey, nonce, signature and then the request parameters
\* in their original order, for every parameter map.
C24_BodyKeyOrder ==
    Signing /\ returned.kind = "ok" =>
        Keys(returned.body) = <<"apiKey", "nonce", "signature">> \o Keys(called.params)

\* C25: every call of rest_authenticate and add_auth_to_data on a constructed
\* authenticator completes without error.
C25_SigningNeverFails ==
    auth.made /\ Signing => returned.kind = "ok"

\* ------------------------------------------------------------------ normalizers: properties
\* the quote currency code of a trading pair
QuoteOf(trading_pair) == Split(trading_pair, "-")[2]

\* the keys of a price map that are the code, ignoring case
Matching(prices, code) == {i \in 1..Len(prices) : Lower(prices[i][1]) = Lower(code)}

\* C26: the trade message carries as price the value of the entry of Data.Price whose
\* currency-code key is the pair's quote currency code, ignoring case.
C26_TradePriceOfQuote ==
    /\ called.fn = "trade_message_from_exchange"
    /\ Matching(called.msg.Data.Price, QuoteOf(called.trading_pair)) # {}
    => /\ returned.kind = "ok"
       /\ \E i \in Matching(called.msg.Data.Price, QuoteOf(called.trading_pair)) :
             returned.message.content.price = called.msg.Data.Price[i][2]

Bid == <<"B", "i", "d">>
Offer == <<"O", "f", "f", "e", "r">>

\* the side of a diff that carries nothing
Zeroed == << <<FloatZero, FloatZero>> >>

\* C27: a NewOrder event whose OrderType contains Bid yields a diff with one bid entry and
\* the ask side zeroed, and one whose OrderType contains Offer yields a diff with one ask
\* entry and the bid side zeroed.
C27_NewOrderOneSide ==
    /\ called.fn = "diff_message_from_exchange"
    /\ called.msg.Event = "NewOrder"
    => /\ Contains(called.msg.Data.OrderType, Bid) =>
             /\ returned.kind = "ok"
             /\ Len(returned.message.content.bids) = 1
             /\ returned.message.content.bids # Zeroed
             /\ returned.message.content.asks = Zeroed
       /\ Contains(called.msg.Data.OrderType, Offer) =>
             /\ returned.kind = "ok"
             /\ Len(returned.message.content.asks) = 1
             /\ returned.message.content.asks # Zeroed
             /\ returned.message.content.bids = Zeroed

\* C39: whatever the request parameters are named, the apiKey, nonce and signature of the
\* body are the authenticator's api key, the timestamp of the signed message and the
\* signature over that message.
C39_AuthValuesKept ==
    Signing /\ returned.kind = "ok" =>
        /\ Lookup(returned.body, "apiKey") = auth.api_key.val
        /\ <<"nonce", "=">> \o Lookup(returned.body, "nonce") = Split(returned.signed, ",")[3]
        /\ Lookup(returned.body, "signature") = Hmac(auth.secret_key.val, returned.signed)

\* the outcomes (published or error) logged between position i and the next invocation,
\* hour sleep or cancellation
OutcomesOf(i) ==
    LET later == {j \in At("get_snapshot") \cup At("hour_sleep") \cup At("cancel") : j > i}
        end == IF later = {} THEN Len(snapLog) + 1 ELSE CHOOSE j \in later : \A k \in later : j <= k
    IN  {j \in At("published") \cup At("error") : i < j /\ j < end}

\* the positions of the log holding a published event, in order
RECURSIVE PublishedAt(_)
PublishedAt(n) ==
    IF n = 0 THEN << >>
    ELSE IF snapLog[n].ev = "published" THEN Append(PublishedAt(n - 1), n) ELSE PublishedAt(n - 1)

\* C33: the first cycle starts at once; in every cycle get_snapshot is invoked once per
\* tracked pair, one at a time and in the tracked order; the hour wait begins only when
\* every tracked pair has been attempted; and each successful pair has one message
\* published, in that order.
C33_CycleVisitsEveryPairOnce ==
    /\ Len(trading_pairs) > 0 => snapLog[1] = SnapEvent("get_snapshot", trading_pairs[1], 0)
    /\ invocations = Cardinality(At("get_snapshot"))
    /\ \A i \in At("get_snapshot") :
          /\ Len(FetchedBefore(i)) < Len(trading_pairs)
          /\ snapLog[i].pair = trading_pairs[Len(FetchedBefore(i)) + 1]
          /\ Cardinality(OutcomesOf(i)) <= 1
          /\ (\E j \in At("get_snapshot") \cup At("hour_sleep") : j > i) => Cardinality(OutcomesOf(i)) = 1
          /\ \A j \in OutcomesOf(i) : snapLog[j].pair = snapLog[i].pair
    /\ \A h \in At("hour_sleep") :
          [k \in 1..Len(FetchedBefore(h)) |-> FetchedBefore(h)[k].pair] = trading_pairs
    /\ Len(snapPublished) = Cardinality(At("published"))
    /\ \A k \in 1..Len(snapPublished) :
          snapPublished[k].content.trading_pair = snapLog[PublishedAt(Len(snapLog))[k]].pair

\* both of two tracked pairs were published in the first cycle and the first again in the second
C33_Witness ==
    /\ Len(trading_pairs) = 2 /\ snapCycle = 2 /\ Len(snapPublished) = 3
    /\ snapPublished[1].content.trading_pair = trading_pairs[1]
    /\ snapPublished[2].content.trading_pair = trading_pairs[2]
    /\ snapPublished[3].content.trading_pair = trading_pairs[1]

\* ------------------------------------------------------------------ listen_for_subscriptions: session order
\* a message is put on the diff or the trade queue
Routed == diffQueue' # diffQueue \/ tradeQueue' # tradeQueue

\* C31: in a session the steps are connect, both subscribe requests, then streaming: a
\* message is put on a queue only when the connect and both sends of the session are
\* done, and none is after an error or a cancellation of the session.
C31_ConnectSubscribeStream ==
    [][Routed =>
          /\ wsPc = "recv" /\ connected /\ ~cancelled /\ raising = None
          /\ sent = <<Ticker \o primary_symbol.val, Orderbook \o primary_symbol.val>>
          /\ Len(wsLog) > 0 /\ wsLog[Len(wsLog)] = "connect"]_vars

\* the first session ended in an error on its first message, and the second session
\* put a message on the trade queue
C31_Witness ==
    /\ sessions = 2 /\ Len(received) = 2
    /\ Route(received[1]) = "raise" /\ Route(received[2]) = TRADE_EVENT_TYPE
    /\ Len(tradeQueue) = 1

\* C32: on an error that is not a cancellation the session is disconnected first, then
\* the backoff delay is awaited, then the loop restarts with a connection attempt.
C32_DisconnectBeforeBackoff ==
    \A i \in 1..Len(wsLog) :
        wsLog[i] = "error" /\ ws # None /\ i + 2 <= Len(wsLog) =>
            wsLog[i + 1] = "disconnect" /\ wsLog[i + 2] = "sleep"

\* ------------------------------------------------------------------ diff and trade loops: trading pair
\* C38: with a non-empty list of tracked pairs, every message the diff loop or the trade
\* loop publishes carries a trading_pair that is one of the tracked pairs.
C38_PublishedPairIsTracked ==
    Len(trading_pairs) > 0 =>
        \A k \in 1..Len(published) :
            \E i \in 1..Len(trading_pairs) : published[k].content.trading_pair = trading_pairs[i]

\* ------------------------------------------------------------------ CreatedTimestampUtc: properties
\* the fraction digits of a timestamp text
FractionOf(text) == SubSeq(Split(text, ".")[2], 1, Len(Split(text, ".")[2]) - 1)

\* the microseconds a fraction of a second denotes, truncated: its first six digits,
\* filled up with zeros
TruncatedMicroseconds(digits) ==
    IntOf([i \in 1..6 |-> IF i <= Len(digits) THEN digits[i] ELSE "0"])

\* C37: the fraction digits of CreatedTimestampUtc become the sub-second offset they
\* denote, truncated to microseconds, whatever their number (.1234567 is 123456).
C37_FractionIsMicroseconds ==
    called.fn = "CreatedTimestampUtc" /\ returned.kind = "ok" =>
        returned.microseconds = TruncatedMicroseconds(FractionOf(called.text))

\* ------------------------------------------------------------------ normalizers: purity
\* C36: the three normalization functions leave the raw message they are given as it
\* was: no key is added, removed or modified.
C36_InputUnchanged ==
    called.fn \in {"snapshot_message_from_exchange", "diff_message_from_exchange",
                   "trade_message_from_exchange"} =>
        called.msg_after = called.msg

\* ------------------------------------------------------------------ assistant getters: properties
\* C35: however the callers of _get_rest_assistant (or _get_ws_assistant) interleave, the
\* factory builds at most one assistant and every caller receives the same one.
C35_OneAssistant ==
    /\ factoryAsked <= 1 \/ factoryBuilt <= 1
    /\ \A t \in Tasks, u \in Tasks : getGot[t].made /\ getGot[u].made => getGot[t] = getGot[u]

\* ------------------------------------------------------------------ REST calls under the throttler: properties
\* C34: every REST call is made while a permit for its endpoint's limit id is held: the
\* permit is acquired before the call starts and given back when the call has completed,
\* also when it raised.
C34_CallUnderPermit ==
    /\ restPc \in {"call", "json"} => restHeld = <<CurrentLimit>>
    /\ restPc \in {"acquire", "done"} => restHeld = << >>
    /\ \A i \in 1..Len(restLog) :
          /\ restLog[i].ev = "call" =>
                /\ i > 1 /\ restLog[i - 1] = RestEvent("acquire", restLog[i].limit_id)
                /\ i < Len(restLog) =>
                      /\ restLog[i + 1].ev \in {"returned", "raised"}
                      /\ restLog[i + 1].limit_id = restLog[i].limit_id
          /\ restLog[i].ev \in {"returned", "raised"} =>
                i < Len(restLog) /\ restLog[i + 1] = RestEvent("release", restLog[i].limit_id)

\* _init_trading_pair_symbols made both its calls, the first of which raised
C34_Witness ==
    /\ restOp = "_init_trading_pair_symbols" /\ restPc = "done" /\ restRuns = 1
    /\ Len(restLog) = 8 /\ restLog[3].ev = "raised" /\ restLog[4].ev = "release"
    /\ restLog[5] = RestEvent("acquire", SECONDARY_CURRENCY_CODES_PATH_URL)
    /\ restLog[7].ev = "returned"

====
